---- MODULE Spec2Model ----
(***************************************************************************)
(* Model of the gprMax sub-gridding (HSG) time-stepping engine:            *)
(*   gprMax/solvers.py            create_solver, Solver.solve              *)
(*   gprMax/subgrids/updates.py   create_updates, SubgridUpdates,          *)
(*                                SubgridUpdater.hsg_1 / hsg_2             *)
(*   gprMax/subgrids/subgrid_hsg.py  IS / OS injection passes              *)
(*                                                                         *)
(* Spec      : the Solver time loop down to every call it makes on the     *)
(*             main-grid updates object and on each sub-grid updater.      *)
(*             Every call appends one event to the history variable log.   *)
(* SpecInj   : the IS / OS injection passes of SubGridHSG and              *)
(*             CUDASubGridHSG as operations on the arrays of the main      *)
(*             grid, the sub-grid and the precursor nodes.  The content of *)
(*             an array is a token: every kernel write yields a new token, *)
(*             every copy (to_gpu, get) carries the token along.           *)
(* SpecGeom  : the main-grid cells the OS passes write, for sub-grid       *)
(*             bounding boxes drawn from a bounded set.                    *)
(***************************************************************************)
EXTENDS Integers, Sequences, FiniteSets, TLC

\* ------------------------------------------------------------------ bounds
MaxSubgrids == 2
MaxRatio == 5
MaxIter == 2
MaxOps == 3
MaxLow == 2
MaxExtent == 2
MaxSep == 2
MaxCoord == 1
MaxCalls == 2

VARIABLES
    cfg,        \* config.sim_config.general: [subgrid, cpu, cuda]
    ratios,     \* G.subgrids: the ratio of each sub-grid, in order
    kinds,      \* G.subgrids: the type and the filter attribute of each sub-grid
    updaters,   \* SubgridUpdates.updaters, as create_updates built it
    hsg,        \* Solver.hsg
    pc,         \* position of the main thread
    iteration,  \* loop variable of Solver.solve
    stmt,       \* index of the next statement of the loop body of solve
    sub,        \* position inside SubgridUpdates.hsg_k / SubgridUpdater.hsg_k
    memsolve,   \* local variable memsolve of Solver.solve
    log,        \* history: every call made so far, in order
    \* ---- SpecInj
    variant,    \* class of the sub-grid: "cpu" SubGridHSG, "cuda" CUDASubGridHSG
    arr,        \* content token of every array attribute (Absent: no attribute)
    fresh,      \* the last content token handed out
    nops,       \* number of operations made so far
    lastop,     \* the operation made last, and how it ended
    pre,        \* arr as it was before the operation made last
    ref,        \* the array object every array attribute is bound to
    issued,     \* the kernel calls the operation made last has issued
    previous,   \* the operation made before the last one, and its kernel calls
    \* ---- SpecGeom
    geom,       \* the sub-grid's ratio, i0, j0, k0, i1, j1, k1, is_os_sep
    written,    \* the pass made last: the OS bounds it computed and, per
                \* kernel call, the cells written
    \* ---- SpecBackends
    backends,   \* a SubgridUpdater and a CUDASubgridUpdater on sub-grids of the
                \* same ratio: the position of each in its hsg method and the
                \* calls it has made
    \* ---- SpecRoughness
    fractalvolumes, \* grid.fractalvolumes: the fractal boxes, each with its ID,
                \* its extent and its list fractalsurfaces
    created     \* the call of AddSurfaceRoughness.create made last: how it
                \* ended, what it logged, and grid.fractalvolumes before it

solverVars == <<cfg, ratios, kinds, updaters, hsg, pc, iteration, stmt, sub, memsolve, log>>
injVars == <<variant, arr, fresh, nops, lastop, pre, ref, issued, previous>>
geomVars == <<geom, written>>

backendVars == <<backends>>

roughVars == <<fractalvolumes, created>>

vars == <<solverVars, injVars, geomVars, backendVars, roughVars>>

\* ------------------------------------------------------------- arithmetic
\* Python int(x) for x = num/2: truncation towards zero.
IntHalf(num) == IF num >= 0 THEN num \div 2 ELSE -((-num) \div 2)

\* mutant of UpperM: the half-step count rounded up instead of truncated
UpperM_RoundUp(ratio) == IntHalf(ratio + 1)

\* upper_m = int(sub_grid.ratio / 2 - 0.5)
UpperM(ratio) == IntHalf(ratio - 1)

\* mutant of StepHigh: the loop index passed as it is
StepHigh_LoopIndex(m, ratio) == m

\* int(m + sub_grid.ratio / 2 - 0.5)
StepHigh(m, ratio) == IntHalf(2 * m + ratio - 1)

\* ---------------------------------------------------------------- events
Ev(lvl, g, tgt, op, arg) == [lvl |-> lvl, g |-> g, tgt |-> tgt, op |-> op, arg |-> arg]
NoArg == -1

\* --------------------------------------------------------- statement lists
S(tgt, op, arg) == [tgt |-> tgt, op |-> op, arg |-> arg]

\* mutant of SolveBody: the two sub-grid phases called in the other order
SolveBody_PhasesSwapped ==
    << S("updates", "store_outputs", "none"),
       S("updates", "store_snapshots", "iteration"),
       S("updates", "update_magnetic", "none"),
       S("updates", "update_magnetic_pml", "none"),
       S("updates", "update_magnetic_sources", "none"),
       S("updates", "hsg_1", "if_hsg"),
       S("updates", "update_electric_a", "none"),
       S("updates", "update_electric_pml", "none"),
       S("updates", "update_electric_sources", "none"),
       S("updates", "hsg_2", "if_hsg"),
       S("updates", "update_electric_b", "none"),
       S("updates", "calculate_memsolve", "if_cuda") >>

\* mutant of SolveBody: hsg_2 called after the electric update instead of
\* before it
SolveBody_HsgAfterElectric ==
    << S("updates", "store_outputs", "none"),
       S("updates", "store_snapshots", "iteration"),
       S("updates", "update_magnetic", "none"),
       S("updates", "update_magnetic_pml", "none"),
       S("updates", "update_magnetic_sources", "none"),
       S("updates", "update_electric_a", "none"),
       S("updates", "hsg_2", "if_hsg"),
       S("updates", "update_electric_pml", "none"),
       S("updates", "update_electric_sources", "none"),
       S("updates", "hsg_1", "if_hsg"),
       S("updates", "update_electric_b", "none"),
       S("updates", "calculate_memsolve", "if_cuda") >>

\* Solver.solve, body of "for iteration in iterator"
SolveBody ==
    << S("updates", "store_outputs", "none"),
       S("updates", "store_snapshots", "iteration"),
       S("updates", "update_magnetic", "none"),
       S("updates", "update_magnetic_pml", "none"),
       S("updates", "update_magnetic_sources", "none"),
       S("updates", "hsg_2", "if_hsg"),
       S("updates", "update_electric_a", "none"),
       S("updates", "update_electric_pml", "none"),
       S("updates", "update_electric_sources", "none"),
       S("updates", "hsg_1", "if_hsg"),
       S("updates", "update_electric_b", "none"),
       S("updates", "calculate_memsolve", "if_cuda") >>

\* mutant of Hsg1Pre: hsg_1 refreshes the magnetic precursor buffer
Hsg1Pre_Magnetic == S("precursors", "update_magnetic", "none")

\* mutant of Hsg1Loop: the magnetic precursor interpolated at the loop index
Hsg1Loop_MagneticAtLoopIndex ==
    << S("self", "store_outputs", "none"),
       S("self", "update_electric_a", "none"),
       S("self", "update_electric_pml", "none"),
       S("precursors", "interpolate_magnetic_in_time", "m"),
       S("sub_grid", "update_electric_is", "none"),
       S("self", "update_electric_sources", "none"),
       S("self", "update_electric_b", "none"),
       S("self", "update_magnetic", "none"),
       S("self", "update_magnetic_pml", "none"),
       S("precursors", "interpolate_electric_in_time", "m"),
       S("sub_grid", "update_magnetic_is", "none"),
       S("self", "update_magnetic_sources", "none") >>

\* mutant of Hsg1Loop: the dispersive correction applied right after the
\* electric advance
Hsg1Loop_DispersiveFirst ==
    << S("self", "store_outputs", "none"),
       S("self", "update_electric_a", "none"),
       S("self", "update_electric_pml", "none"),
       S("self", "update_electric_b", "none"),
       S("precursors", "interpolate_magnetic_in_time", "m_high"),
       S("sub_grid", "update_electric_is", "none"),
       S("self", "update_electric_sources", "none"),
       S("self", "update_magnetic", "none"),
       S("self", "update_magnetic_pml", "none"),
       S("precursors", "interpolate_electric_in_time", "m"),
       S("sub_grid", "update_magnetic_is", "none"),
       S("self", "update_magnetic_sources", "none") >>

\* SubgridUpdater.hsg_1
Hsg1Pre == S("precursors", "update_electric", "none")

Hsg1Loop ==
    << S("self", "store_outputs", "none"),
       S("self", "update_electric_a", "none"),
       S("self", "update_electric_pml", "none"),
       S("precursors", "interpolate_magnetic_in_time", "m_high"),
       S("sub_grid", "update_electric_is", "none"),
       S("self", "update_electric_sources", "none"),
       S("self", "update_electric_b", "none"),
       S("self", "update_magnetic", "none"),
       S("self", "update_magnetic_pml", "none"),
       S("precursors", "interpolate_electric_in_time", "m"),
       S("sub_grid", "update_magnetic_is", "none"),
       S("self", "update_magnetic_sources", "none") >>

\* mutant of Hsg1Tail: hsg_1 ends without the OS injection
Hsg1Tail_NoOs ==
    << S("self", "store_outputs", "none"),
       S("self", "update_electric_a", "none"),
       S("self", "update_electric_pml", "none"),
       S("precursors", "calc_exact_magnetic_in_time", "none"),
       S("sub_grid", "update_electric_is", "none"),
       S("self", "update_electric_sources", "none"),
       S("self", "update_electric_b", "none") >>

\* mutant of Hsg1Tail: the last IS injection fed by an interpolated value
Hsg1Tail_Interpolated ==
    << S("self", "store_outputs", "none"),
       S("self", "update_electric_a", "none"),
       S("self", "update_electric_pml", "none"),
       S("precursors", "interpolate_magnetic_in_time", "m_high"),
       S("sub_grid", "update_electric_is", "none"),
       S("self", "update_electric_sources", "none"),
       S("self", "update_electric_b", "none"),
       S("sub_grid", "update_electric_os", "none") >>

Hsg1Tail ==
    << S("self", "store_outputs", "none"),
       S("self", "update_electric_a", "none"),
       S("self", "update_electric_pml", "none"),
       S("precursors", "calc_exact_magnetic_in_time", "none"),
       S("sub_grid", "update_electric_is", "none"),
       S("self", "update_electric_sources", "none"),
       S("self", "update_electric_b", "none"),
       S("sub_grid", "update_electric_os", "none") >>

\* mutant of Hsg2Loop: the outputs stored after the electric advance
Hsg2Loop_StoreAfterAdvance ==
    << S("self", "update_magnetic", "none"),
       S("self", "update_magnetic_pml", "none"),
       S("precursors", "interpolate_electric_in_time", "m_high"),
       S("sub_grid", "update_magnetic_is", "none"),
       S("self", "update_magnetic_sources", "none"),
       S("self", "update_electric_a", "none"),
       S("self", "store_outputs", "none"),
       S("self", "update_electric_pml", "none"),
       S("precursors", "interpolate_magnetic_in_time", "m"),
       S("sub_grid", "update_electric_is", "none"),
       S("self", "update_electric_sources", "none"),
       S("self", "update_electric_b", "none") >>

\* mutant of Hsg2Loop: the IS magnetic injection made before the magnetic
\* advance
Hsg2Loop_IsBeforeAdvance ==
    << S("precursors", "interpolate_electric_in_time", "m_high"),
       S("sub_grid", "update_magnetic_is", "none"),
       S("self", "update_magnetic", "none"),
       S("self", "update_magnetic_pml", "none"),
       S("self", "update_magnetic_sources", "none"),
       S("self", "store_outputs", "none"),
       S("self", "update_electric_a", "none"),
       S("self", "update_electric_pml", "none"),
       S("precursors", "interpolate_magnetic_in_time", "m"),
       S("sub_grid", "update_electric_is", "none"),
       S("self", "update_electric_sources", "none"),
       S("self", "update_electric_b", "none") >>

\* mutant of Hsg2Tail: the OS injection made before the magnetic sources
Hsg2Tail_OsBeforeSources ==
    << S("self", "update_magnetic", "none"),
       S("self", "update_magnetic_pml", "none"),
       S("precursors", "calc_exact_electric_in_time", "none"),
       S("sub_grid", "update_magnetic_is", "none"),
       S("sub_grid", "update_magnetic_os", "none"),
       S("self", "update_magnetic_sources", "none") >>

\* mutant of Hsg2Pre: hsg_2 refreshes the electric precursor buffer
Hsg2Pre_Electric == S("precursors", "update_electric", "none")

\* SubgridUpdater.hsg_2
Hsg2Pre == S("precursors", "update_magnetic", "none")

Hsg2Loop ==
    << S("self", "update_magnetic", "none"),
       S("self", "update_magnetic_pml", "none"),
       S("precursors", "interpolate_electric_in_time", "m_high"),
       S("sub_grid", "update_magnetic_is", "none"),
       S("self", "update_magnetic_sources", "none"),
       S("self", "store_outputs", "none"),
       S("self", "update_electric_a", "none"),
       S("self", "update_electric_pml", "none"),
       S("precursors", "interpolate_magnetic_in_time", "m"),
       S("sub_grid", "update_electric_is", "none"),
       S("self", "update_electric_sources", "none"),
       S("self", "update_electric_b", "none") >>

Hsg2Tail ==
    << S("self", "update_magnetic", "none"),
       S("self", "update_magnetic_pml", "none"),
       S("precursors", "calc_exact_electric_in_time", "none"),
       S("sub_grid", "update_magnetic_is", "none"),
       S("self", "update_magnetic_sources", "none"),
       S("sub_grid", "update_magnetic_os", "none") >>

PreOf(phase) == IF phase = "hsg_1" THEN Hsg1Pre ELSE Hsg2Pre
LoopOf(phase) == IF phase = "hsg_1" THEN Hsg1Loop ELSE Hsg2Loop
TailOf(phase) == IF phase = "hsg_1" THEN Hsg1Tail ELSE Hsg2Tail

\* CUDASubgridUpdater.hsg1_gpu
Hsg1GpuPre == S("precursors", "update_electric", "none")

Hsg1GpuLoop ==
    << S("self", "store_outputs_gpu", "none"),
       S("self", "update_electric_a", "none"),
       S("self", "update_electric_pml", "none"),
       S("precursors", "interpolate_magnetic_in_time", "m_high"),
       S("sub_grid", "update_electric_is", "none"),
       S("self", "update_electric_sources", "none"),
       S("self", "update_electric_b", "none"),
       S("self", "update_magnetic_gpu", "none"),
       S("self", "update_magnetic_pml", "none"),
       S("precursors", "interpolate_electric_in_time", "m"),
       S("sub_grid", "update_magnetic_is", "none"),
       S("self", "update_magnetic_sources", "none") >>

Hsg1GpuTail ==
    << S("self", "store_outputs_gpu", "none"),
       S("self", "update_electric_a", "none"),
       S("self", "update_electric_pml", "none"),
       S("precursors", "calc_exact_magnetic_in_time", "none"),
       S("sub_grid", "update_electric_is", "none"),
       S("self", "update_electric_sources", "none"),
       S("self", "update_electric_b", "none"),
       S("sub_grid", "update_electric_os", "none") >>

\* CUDASubgridUpdater.hsg2_gpu
Hsg2GpuPre == S("precursors", "update_magnetic", "none")

Hsg2GpuLoop ==
    << S("self", "update_magnetic_gpu", "none"),
       S("self", "update_magnetic_pml", "none"),
       S("precursors", "interpolate_electric_in_time", "m_high"),
       S("sub_grid", "update_magnetic_is", "none"),
       S("self", "update_magnetic_sources", "none"),
       S("self", "store_outputs_gpu", "none"),
       S("self", "update_electric_a", "none"),
       S("self", "update_electric_pml", "none"),
       S("precursors", "interpolate_magnetic_in_time", "m"),
       S("sub_grid", "update_electric_is", "none"),
       S("self", "update_electric_sources", "none"),
       S("self", "update_electric_b", "none") >>

Hsg2GpuTail ==
    << S("self", "update_magnetic_gpu", "none"),
       S("self", "update_magnetic_pml", "none"),
       S("precursors", "calc_exact_electric_in_time", "none"),
       S("sub_grid", "update_magnetic_is", "none"),
       S("self", "update_magnetic_sources", "none"),
       S("sub_grid", "update_magnetic_os", "none") >>

GpuPreOf(phase) == IF phase = "hsg_1" THEN Hsg1GpuPre ELSE Hsg2GpuPre
GpuLoopOf(phase) == IF phase = "hsg_1" THEN Hsg1GpuLoop ELSE Hsg2GpuLoop
GpuTailOf(phase) == IF phase = "hsg_1" THEN Hsg1GpuTail ELSE Hsg2GpuTail

\* --------------------------------------------------------------- positions
NoSub == [phase |-> "none", u |-> 0, at |-> "none", m |-> 0, pos |-> 0]

\* the argument a sub-grid statement is called with
ArgOf(st, m, ratio) ==
    CASE st.arg = "m" -> m
      [] st.arg = "m_high" -> StepHigh(m, ratio)
      [] OTHER -> NoArg

\* values of the local name memsolve: not yet bound, None, or the value of
\* calculate_memsolve(iteration)
Unbound == [kind |-> "unbound", of |-> NoArg]
PyNone == [kind |-> "None", of |-> NoArg]

\* the variables of the other specifications, at rest
InjIdle ==
    /\ variant = "none" /\ arr = <<>> /\ fresh = 0 /\ nops = 0
    /\ lastop = <<"none", "none">> /\ pre = <<>> /\ ref = <<>>
    /\ issued = <<>> /\ previous = [op |-> "none", calls |-> <<>>]

NoGeom == [ratio |-> 0, i0 |-> 0, j0 |-> 0, k0 |-> 0, i1 |-> 0, j1 |-> 0, k1 |-> 0,
           is_os_sep |-> 0, nx |-> 0, ny |-> 0, nz |-> 0]
NoBounds == [i_l |-> 0, i_u |-> 0, j_l |-> 0, j_u |-> 0, k_l |-> 0, k_u |-> 0]
NoPass == [pass |-> "none", variant |-> "none", calls |-> <<>>,
           bounds |-> NoBounds, first |-> NoBounds, again |-> FALSE]

GeomIdle == geom = NoGeom /\ written = NoPass

Fields == {"electric", "magnetic"}

NoCreate == [n |-> 0, result |-> "none", logged |-> "none", before |-> <<>>]

RoughIdle == fractalvolumes = <<>> /\ created = NoCreate

NoRun == [grid |-> "none", at |-> "none", m |-> 0, pos |-> 0, trace |-> <<>>]

BackendsIdle == backends = [ratio |-> 0, phase |-> "none", cpu |-> NoRun, cuda |-> NoRun]

SolverIdle ==
    /\ cfg = [subgrid |-> FALSE, cpu |-> FALSE, cuda |-> FALSE]
    /\ ratios = <<>> /\ kinds = <<>> /\ updaters = <<>>
    /\ hsg = FALSE /\ pc = "none" /\ iteration = -1
    /\ stmt = 0 /\ sub = NoSub /\ memsolve = Unbound /\ log = <<>>

\* ------------------------------------------------------------------- Init
Configs == [subgrid : BOOLEAN, cpu : BOOLEAN, cuda : BOOLEAN]

\* G.subgrids, as the list of the sub-grids' ratios.  The first sub-grid takes
\* every ratio in 1..MaxRatio (the code validates none), each further one a
\* ratio of OtherRatios.
OtherRatios == {2, 3}

SubgridLists ==
    {l \in UNION {[1..n -> 1..MaxRatio] : n \in 0..MaxSubgrids} :
        \A i \in 2..Len(l) : l[i] \in OtherRatios}

\* The type of a sub-grid object and its filter attribute.  create_updates
\* knows the type SubGridHSG only; CUDASubGridHSG is the other sub-grid class.
SubgridTypes == {"SubGridHSG", "CUDASubGridHSG"}

FirstKinds == [type : SubgridTypes, filter : BOOLEAN]

OtherKinds ==
    {[type |-> "SubGridHSG", filter |-> FALSE], [type |-> "CUDASubGridHSG", filter |-> TRUE]}

KindLists(n) ==
    {k \in [1..n -> FirstKinds] : \A i \in 2..n : k[i] \in OtherKinds}

\* The entry points: create_G() and create_solver(G).
Init ==
    /\ cfg \in Configs
    /\ ratios \in SubgridLists
    /\ (~cfg.subgrid => ratios = <<>>)
    /\ kinds \in KindLists(Len(ratios))
    /\ updaters = <<>>
    /\ hsg = FALSE
    /\ pc \in {"create_G", "create_solver"}
    /\ iteration = -1
    /\ stmt = 0
    /\ sub = NoSub
    /\ memsolve = Unbound
    /\ log = <<>>
    /\ InjIdle
    /\ GeomIdle
    /\ BackendsIdle
    /\ RoughIdle

\* ----------------------------------------------------------------- create_G
\* solvers.py create_G: cpu, else cuda; with neither set the local name G is
\* never bound and "return G" raises.
CreateG ==
    /\ pc = "create_G"
    /\ IF cfg.cpu
         THEN /\ log' = <<Ev("setup", 0, "module", "create_G", NoArg),
                          Ev("setup", 0, "module", "FDTDGrid", NoArg)>>
              /\ pc' = "G_returned"
         ELSE IF cfg.cuda
         THEN /\ log' = <<Ev("setup", 0, "module", "create_G", NoArg),
                          Ev("setup", 0, "module", "CUDAGrid", NoArg)>>
              /\ pc' = "G_returned"
         ELSE /\ log' = <<Ev("setup", 0, "module", "create_G", NoArg)>>
              /\ pc' = "UnboundLocalError"
    /\ UNCHANGED <<cfg, ratios, kinds, updaters, hsg, iteration, stmt, sub, memsolve>>
    /\ UNCHANGED <<injVars, geomVars, backendVars, roughVars>>

\* ------------------------------------------------------------ create_updates
\* PrecursorNodes(G, sg) / PrecursorNodesFiltered(G, sg); sg is the position of
\* the sub-grid object in G.subgrids
PrecursorsOf(cls, sg) == [cls |-> cls, G |-> "G", sub_grid |-> sg]

\* SubgridUpdater(sg, precursors, G)
SubgridUpdater(sg, precursors) ==
    [grid |-> sg, precursors |-> precursors, G |-> "G", source_iteration |-> 0]

\* mutant of CreateUpdatesFrom: each new updater is put in front of the list
RECURSIVE CreateUpdatesFrom_Prepend(_, _, _)
CreateUpdatesFrom_Prepend(sgs, i, built) ==
    IF i > Len(sgs) THEN [raised |-> "none", updaters |-> built]
    ELSE IF sgs[i].type = "SubGridHSG" /\ sgs[i].filter
      THEN CreateUpdatesFrom_Prepend(sgs, i + 1,
              <<SubgridUpdater(i, PrecursorsOf("PrecursorNodesFiltered", i))>> \o built)
    ELSE IF sgs[i].type = "SubGridHSG" /\ ~sgs[i].filter
      THEN CreateUpdatesFrom_Prepend(sgs, i + 1,
              <<SubgridUpdater(i, PrecursorsOf("PrecursorNodes", i))>> \o built)
    ELSE [raised |-> "ValueError", updaters |-> <<>>]

\* mutant of CreateUpdatesFrom: the filter flag is read the other way round
RECURSIVE CreateUpdatesFrom_FilterNegated(_, _, _)
CreateUpdatesFrom_FilterNegated(sgs, i, built) ==
    IF i > Len(sgs) THEN [raised |-> "none", updaters |-> built]
    ELSE IF sgs[i].type = "SubGridHSG" /\ ~sgs[i].filter
      THEN CreateUpdatesFrom_FilterNegated(sgs, i + 1,
              Append(built, SubgridUpdater(i, PrecursorsOf("PrecursorNodesFiltered", i))))
    ELSE IF sgs[i].type = "SubGridHSG" /\ sgs[i].filter
      THEN CreateUpdatesFrom_FilterNegated(sgs, i + 1,
              Append(built, SubgridUpdater(i, PrecursorsOf("PrecursorNodes", i))))
    ELSE [raised |-> "ValueError", updaters |-> <<>>]

\* the loop "for sg in G.subgrids" from element i on, with the updaters built
\* so far; raise ValueError leaves create_updates without a result
RECURSIVE CreateUpdatesFrom(_, _, _)
CreateUpdatesFrom(sgs, i, built) ==
    IF i > Len(sgs) THEN [raised |-> "none", updaters |-> built]
    ELSE IF sgs[i].type = "SubGridHSG" /\ sgs[i].filter
      THEN CreateUpdatesFrom(sgs, i + 1,
              Append(built, SubgridUpdater(i, PrecursorsOf("PrecursorNodesFiltered", i))))
    ELSE IF sgs[i].type = "SubGridHSG" /\ ~sgs[i].filter
      THEN CreateUpdatesFrom(sgs, i + 1,
              Append(built, SubgridUpdater(i, PrecursorsOf("PrecursorNodes", i))))
    ELSE [raised |-> "ValueError", updaters |-> <<>>]

\* create_updates(G)
CreateUpdates(sgs) == CreateUpdatesFrom(sgs, 1, <<>>)

\* ------------------------------------------------------------ create_solver
\* solvers.py create_solver: subgrid, else cpu, else cuda; with none of the
\* three set the local name solver is never bound and "return solver" raises.
\* An exception of create_subgrid_updates leaves create_solver at once.
\* mutant of CreateSolver: the cpu flag tested before the subgrid flag
CreateSolver_CpuFirst ==
    /\ pc = "create_solver"
    /\ IF cfg.cpu
         THEN /\ hsg' = FALSE
              /\ pc' = "time_start"
              /\ updaters' = updaters
              /\ log' = <<Ev("setup", 0, "module", "CPUUpdates", NoArg),
                          Ev("setup", 0, "updates", "adapt_dispersive_config", NoArg),
                          Ev("setup", 0, "updates", "set_dispersive_updates", NoArg)>>
         ELSE IF cfg.subgrid /\ CreateUpdates(kinds).raised # "none"
         THEN /\ hsg' = FALSE
              /\ pc' = CreateUpdates(kinds).raised
              /\ updaters' = <<>>
              /\ log' = <<Ev("setup", 0, "module", "create_subgrid_updates", NoArg)>>
         ELSE IF cfg.subgrid
         THEN /\ hsg' = TRUE
              /\ pc' = "time_start"
              /\ updaters' = CreateUpdates(kinds).updaters
              /\ log' = <<Ev("setup", 0, "module", "create_subgrid_updates", NoArg)>>
                        \o (IF cfg.cuda THEN <<>>
                            ELSE <<Ev("setup", 0, "updates", "adapt_dispersive_config", NoArg),
                                   Ev("setup", 0, "updates", "set_dispersive_updates", NoArg)>>)
         ELSE IF cfg.cuda
         THEN /\ hsg' = FALSE
              /\ pc' = "time_start"
              /\ updaters' = updaters
              /\ log' = <<Ev("setup", 0, "module", "CUDAUpdates", NoArg)>>
         ELSE /\ hsg' = FALSE
              /\ pc' = "UnboundLocalError"
              /\ updaters' = updaters
              /\ log' = log
    /\ UNCHANGED <<cfg, ratios, kinds, iteration, stmt, sub, memsolve>>
    /\ UNCHANGED <<injVars, geomVars, backendVars, roughVars>>

CreateSolver ==
    /\ pc = "create_solver"
    /\ IF cfg.subgrid /\ CreateUpdates(kinds).raised # "none"
         THEN /\ hsg' = FALSE
              /\ pc' = CreateUpdates(kinds).raised
              /\ updaters' = <<>>
              /\ log' = <<Ev("setup", 0, "module", "create_subgrid_updates", NoArg)>>
         ELSE IF cfg.subgrid
         THEN /\ hsg' = TRUE
              /\ pc' = "time_start"
              /\ updaters' = CreateUpdates(kinds).updaters
              /\ log' = <<Ev("setup", 0, "module", "create_subgrid_updates", NoArg)>>
                        \o (IF cfg.cuda THEN <<>>
                            ELSE <<Ev("setup", 0, "updates", "adapt_dispersive_config", NoArg),
                                   Ev("setup", 0, "updates", "set_dispersive_updates", NoArg)>>)
         ELSE IF cfg.cpu
         THEN /\ hsg' = FALSE
              /\ pc' = "time_start"
              /\ updaters' = updaters
              /\ log' = <<Ev("setup", 0, "module", "CPUUpdates", NoArg),
                          Ev("setup", 0, "updates", "adapt_dispersive_config", NoArg),
                          Ev("setup", 0, "updates", "set_dispersive_updates", NoArg)>>
         ELSE IF cfg.cuda
         THEN /\ hsg' = FALSE
              /\ pc' = "time_start"
              /\ updaters' = updaters
              /\ log' = <<Ev("setup", 0, "module", "CUDAUpdates", NoArg)>>
         ELSE /\ hsg' = FALSE
              /\ pc' = "UnboundLocalError"
              /\ updaters' = updaters
              /\ log' = log
    /\ UNCHANGED <<cfg, ratios, kinds, iteration, stmt, sub, memsolve>>
    /\ UNCHANGED <<injVars, geomVars, backendVars, roughVars>>

\* ------------------------------------------------------------- Solver.solve
TimeStart ==
    /\ pc = "time_start"
    /\ log' = Append(log, Ev("solver", 0, "updates", "time_start", NoArg))
    /\ pc' = "for"
    /\ UNCHANGED <<cfg, ratios, kinds, updaters, hsg, iteration, stmt, sub, memsolve>>
    /\ UNCHANGED <<injVars, geomVars, backendVars, roughVars>>

\* for iteration in iterator: the iterator (range() or tqdm()) either yields
\* the next index or is exhausted; its length is any number in 0..MaxIter.
ForIteration ==
    /\ pc = "for"
    /\ \/ /\ iteration + 1 < MaxIter
          /\ iteration' = iteration + 1
          /\ stmt' = 1
          /\ pc' = "body"
       \/ /\ pc' = "finalise"
          /\ UNCHANGED <<iteration, stmt>>
    /\ UNCHANGED <<cfg, ratios, kinds, updaters, hsg, sub, memsolve, log>>
    /\ UNCHANGED <<injVars, geomVars, backendVars, roughVars>>

NextStmt == IF stmt = Len(SolveBody) THEN <<"for", 0>> ELSE <<"body", stmt + 1>>

\* a plain call self.updates.<op>() of the loop body
SolveOp ==
    /\ pc = "body" /\ sub = NoSub
    /\ SolveBody[stmt].arg \in {"none", "iteration"}
    /\ log' = Append(log, Ev("solver", 0, "updates", SolveBody[stmt].op,
                             IF SolveBody[stmt].arg = "iteration" THEN iteration ELSE NoArg))
    /\ pc' = NextStmt[1] /\ stmt' = NextStmt[2]
    /\ UNCHANGED <<cfg, ratios, kinds, updaters, hsg, iteration, sub, memsolve>>
    /\ UNCHANGED <<injVars, geomVars, backendVars, roughVars>>

\* mutant of SolveHsgCall: hsg_k called without testing self.hsg
SolveHsgCall_Unguarded ==
    /\ pc = "body" /\ sub = NoSub
    /\ SolveBody[stmt].arg = "if_hsg"
    /\ log' = Append(log, Ev("solver", 0, "updates", SolveBody[stmt].op, NoArg))
    /\ sub' = [phase |-> SolveBody[stmt].op, u |-> 0, at |-> "agg", m |-> 0, pos |-> 0]
    /\ UNCHANGED <<cfg, ratios, kinds, updaters, hsg, pc, iteration, stmt, memsolve>>
    /\ UNCHANGED <<injVars, geomVars, backendVars, roughVars>>

\* if self.hsg: self.updates.hsg_k()   -- the call enters SubgridUpdates.hsg_k
SolveHsgCall ==
    /\ pc = "body" /\ sub = NoSub
    /\ SolveBody[stmt].arg = "if_hsg"
    /\ hsg
    /\ log' = Append(log, Ev("solver", 0, "updates", SolveBody[stmt].op, NoArg))
    /\ sub' = [phase |-> SolveBody[stmt].op, u |-> 0, at |-> "agg", m |-> 0, pos |-> 0]
    /\ UNCHANGED <<cfg, ratios, kinds, updaters, hsg, pc, iteration, stmt, memsolve>>
    /\ UNCHANGED <<injVars, geomVars, backendVars, roughVars>>

\* if self.hsg: ...   with hsg False
SolveHsgSkip ==
    /\ pc = "body" /\ sub = NoSub
    /\ SolveBody[stmt].arg = "if_hsg"
    /\ ~hsg
    /\ pc' = NextStmt[1] /\ stmt' = NextStmt[2]
    /\ UNCHANGED <<cfg, ratios, kinds, updaters, hsg, iteration, sub, memsolve, log>>
    /\ UNCHANGED <<injVars, geomVars, backendVars, roughVars>>

\* memsolve = self.updates.calculate_memsolve(iteration) if cuda else None
SolveMemsolve ==
    /\ pc = "body" /\ sub = NoSub
    /\ SolveBody[stmt].arg = "if_cuda"
    /\ IF cfg.cuda
         THEN /\ log' = Append(log, Ev("solver", 0, "updates", SolveBody[stmt].op, iteration))
              /\ memsolve' = [kind |-> "value", of |-> iteration]
         ELSE /\ log' = log
              /\ memsolve' = PyNone
    /\ pc' = NextStmt[1] /\ stmt' = NextStmt[2]
    /\ UNCHANGED <<cfg, ratios, kinds, updaters, hsg, iteration, sub>>
    /\ UNCHANGED <<injVars, geomVars, backendVars, roughVars>>

Finalise ==
    /\ pc = "finalise"
    /\ log' = Append(log, Ev("solver", 0, "updates", "finalise", NoArg))
    /\ pc' = "calculate_tsolve"
    /\ UNCHANGED <<cfg, ratios, kinds, updaters, hsg, iteration, stmt, sub, memsolve>>
    /\ UNCHANGED <<injVars, geomVars, backendVars, roughVars>>

\* mutant of CalculateTsolve: cleanup called in the place of calculate_tsolve
CalculateTsolve_Cleanup ==
    /\ pc = "calculate_tsolve"
    /\ log' = Append(log, Ev("solver", 0, "updates", "cleanup", NoArg))
    /\ pc' = "cleanup"
    /\ UNCHANGED <<cfg, ratios, kinds, updaters, hsg, iteration, stmt, sub, memsolve>>
    /\ UNCHANGED <<injVars, geomVars, backendVars, roughVars>>

CalculateTsolve ==
    /\ pc = "calculate_tsolve"
    /\ log' = Append(log, Ev("solver", 0, "updates", "calculate_tsolve", NoArg))
    /\ pc' = "cleanup"
    /\ UNCHANGED <<cfg, ratios, kinds, updaters, hsg, iteration, stmt, sub, memsolve>>
    /\ UNCHANGED <<injVars, geomVars, backendVars, roughVars>>

Cleanup ==
    /\ pc = "cleanup"
    /\ log' = Append(log, Ev("solver", 0, "updates", "cleanup", NoArg))
    /\ pc' = "return"
    /\ UNCHANGED <<cfg, ratios, kinds, updaters, hsg, iteration, stmt, sub, memsolve>>
    /\ UNCHANGED <<injVars, geomVars, backendVars, roughVars>>

\* return tsolve, memsolve   (memsolve is unbound after zero iterations)
Return ==
    /\ pc = "return"
    /\ pc' = IF memsolve = Unbound THEN "UnboundLocalError" ELSE "done"
    /\ UNCHANGED <<cfg, ratios, kinds, updaters, hsg, iteration, stmt, sub, memsolve, log>>
    /\ UNCHANGED <<injVars, geomVars, backendVars, roughVars>>

\* ------------------------------------------- SubgridUpdates.hsg_1 / hsg_2
\* for sg_updater in self.updaters: sg_updater.hsg_k()
AggCall ==
    /\ sub.at = "agg"
    /\ sub.u < Len(updaters)
    /\ log' = Append(log, Ev("call", sub.u + 1, "sg_updater", sub.phase, NoArg))
    /\ sub' = [sub EXCEPT !.u = sub.u + 1, !.at = "pre"]
    /\ UNCHANGED <<cfg, ratios, kinds, updaters, hsg, pc, iteration, stmt, memsolve>>
    /\ UNCHANGED <<injVars, geomVars, backendVars, roughVars>>

\* mutant of AggReturn: the aggregate call returns before the last updater
\* has run
AggReturn_Early ==
    /\ sub.at = "agg"
    /\ sub.u = Len(updaters) - 1
    /\ sub' = NoSub
    /\ pc' = NextStmt[1] /\ stmt' = NextStmt[2]
    /\ UNCHANGED <<cfg, ratios, kinds, updaters, hsg, iteration, memsolve, log>>
    /\ UNCHANGED <<injVars, geomVars, backendVars, roughVars>>

AggReturn ==
    /\ sub.at = "agg"
    /\ sub.u = Len(updaters)
    /\ sub' = NoSub
    /\ pc' = NextStmt[1] /\ stmt' = NextStmt[2]
    /\ UNCHANGED <<cfg, ratios, kinds, updaters, hsg, iteration, memsolve, log>>
    /\ UNCHANGED <<injVars, geomVars, backendVars, roughVars>>

\* ------------------------------------------- SubgridUpdater.hsg_1 / hsg_2
\* sub_grid.ratio of the sub-grid the u-th updater is bound to
RatioOf(u) == ratios[updaters[u].grid]

\* precursors.update_electric() / precursors.update_magnetic()
SubPrecursorRefresh ==
    /\ sub.at = "pre"
    /\ log' = Append(log, Ev("sub", sub.u, PreOf(sub.phase).tgt, PreOf(sub.phase).op, NoArg))
    /\ sub' = [sub EXCEPT !.at = "for", !.m = 0]
    /\ UNCHANGED <<cfg, ratios, kinds, updaters, hsg, pc, iteration, stmt, memsolve>>
    /\ UNCHANGED <<injVars, geomVars, backendVars, roughVars>>

\* mutant of SubFor: the loop is never left
SubFor_NoExit ==
    /\ sub.at = "for"
    /\ sub.m + 1 < UpperM(RatioOf(sub.u)) + 1
    /\ sub' = [sub EXCEPT !.at = "loop", !.m = sub.m + 1, !.pos = 1]
    /\ UNCHANGED <<cfg, ratios, kinds, updaters, hsg, pc, iteration, stmt, memsolve, log>>
    /\ UNCHANGED <<injVars, geomVars, backendVars, roughVars>>

\* for m in range(1, upper_m + 1)
SubFor ==
    /\ sub.at = "for"
    /\ IF sub.m + 1 < UpperM(RatioOf(sub.u)) + 1
         THEN sub' = [sub EXCEPT !.at = "loop", !.m = sub.m + 1, !.pos = 1]
         ELSE sub' = [sub EXCEPT !.at = "tail", !.pos = 1]
    /\ UNCHANGED <<cfg, ratios, kinds, updaters, hsg, pc, iteration, stmt, memsolve, log>>
    /\ UNCHANGED <<injVars, geomVars, backendVars, roughVars>>

SubLoopOp ==
    /\ sub.at = "loop"
    /\ LET st == LoopOf(sub.phase)[sub.pos] IN
         log' = Append(log, Ev("sub", sub.u, st.tgt, st.op, ArgOf(st, sub.m, RatioOf(sub.u))))
    /\ IF sub.pos = Len(LoopOf(sub.phase))
         THEN sub' = [sub EXCEPT !.at = "for", !.pos = 0]
         ELSE sub' = [sub EXCEPT !.pos = sub.pos + 1]
    /\ UNCHANGED <<cfg, ratios, kinds, updaters, hsg, pc, iteration, stmt, memsolve>>
    /\ UNCHANGED <<injVars, geomVars, backendVars, roughVars>>

SubTailOp ==
    /\ sub.at = "tail"
    /\ LET st == TailOf(sub.phase)[sub.pos] IN
         log' = Append(log, Ev("sub", sub.u, st.tgt, st.op, ArgOf(st, sub.m, RatioOf(sub.u))))
    /\ IF sub.pos = Len(TailOf(sub.phase))
         THEN sub' = [sub EXCEPT !.at = "ret", !.pos = 0]
         ELSE sub' = [sub EXCEPT !.pos = sub.pos + 1]
    /\ UNCHANGED <<cfg, ratios, kinds, updaters, hsg, pc, iteration, stmt, memsolve>>
    /\ UNCHANGED <<injVars, geomVars, backendVars, roughVars>>

SubReturn ==
    /\ sub.at = "ret"
    /\ log' = Append(log, Ev("ret", sub.u, "sg_updater", sub.phase, NoArg))
    /\ sub' = [sub EXCEPT !.at = "agg", !.m = 0]
    /\ UNCHANGED <<cfg, ratios, kinds, updaters, hsg, pc, iteration, stmt, memsolve>>
    /\ UNCHANGED <<injVars, geomVars, backendVars, roughVars>>

Next ==
    \/ CreateG
    \/ CreateSolver
    \/ TimeStart
    \/ ForIteration
    \/ SolveOp
    \/ SolveHsgCall
    \/ SolveHsgSkip
    \/ SolveMemsolve
    \/ Finalise
    \/ CalculateTsolve
    \/ Cleanup
    \/ Return
    \/ AggCall
    \/ AggReturn
    \/ SubPrecursorRefresh
    \/ SubFor
    \/ SubLoopOp
    \/ SubTailOp
    \/ SubReturn

Spec == Init /\ [][Next]_vars

\* ---- the run of a sub-gridding model ---------------------------------------
\* create_solver(G) for a model with sub-gridding enabled and sub-grids of
\* the type create_updates knows, followed by Solver.solve(iterator).
InitSolve ==
    /\ Init
    /\ cfg.subgrid
    /\ pc = "create_solver"
    /\ \A i \in 1..Len(kinds) : kinds[i].type = "SubGridHSG"

NextSolve ==
    \/ CreateSolver
    \/ TimeStart
    \/ ForIteration
    \/ SolveOp
    \/ SolveHsgCall
    \/ SolveMemsolve
    \/ Finalise
    \/ CalculateTsolve
    \/ Cleanup
    \/ Return
    \/ AggCall
    \/ AggReturn
    \/ SubPrecursorRefresh
    \/ SubFor
    \/ SubLoopOp
    \/ SubTailOp
    \/ SubReturn

\* The program is one thread: whenever it has a next statement, it executes
\* it (every call of a collaborator is taken to return).
SpecSolve == InitSolve /\ [][NextSolve]_vars /\ WF_vars(NextSolve)

\* ===================================================================== SpecInj
\* Array attributes.  A slot is <<owner, attribute, place>>: owner "main"
\* (main_grid), "sub" (self, the sub-grid) or "prec" (precursors); place
\* "host" for the numpy attribute X, "gpu" for the device attribute X_gpu.
EFields == {"Ex", "Ey", "Ez"}
HFields == {"Hx", "Hy", "Hz"}
GridArrays == EFields \cup HFields \cup {"ID", "updatecoeffsE", "updatecoeffsH"}

PrecE == {"ex_bottom", "ex_top", "ex_front", "ex_back", "ey_bottom", "ey_top",
          "ey_left", "ey_right", "ez_front", "ez_back", "ez_left", "ez_right"}
PrecH == {"hx_bottom", "hx_top", "hx_front", "hx_back", "hy_bottom", "hy_top",
          "hy_left", "hy_right", "hz_front", "hz_back", "hz_left", "hz_right"}

Slots ==
    ({"main", "sub"} \X GridArrays \X {"host", "gpu"})
      \cup ({"prec"} \X (PrecE \cup PrecH) \X {"host", "gpu"})

Absent == -1
SetupContent == 0

\* the arrays as model building leaves them: host arrays allocated, the
\* sub-grid's device arrays uploaded from them (CUDA variant), no device
\* attribute yet on the main grid or the precursor nodes
SetupArrays(v) ==
    [s \in Slots |->
        IF s[3] = "host" THEN SetupContent
        ELSE IF v = "cuda" /\ s[1] = "sub" THEN SetupContent
        ELSE Absent]

\* Array objects.  The object an attribute is bound to is named by the
\* operation that allocated it: BuiltAtSetup for the arrays of model building,
\* n for an array allocated by the n-th operation made since.
NoObject == -1
BuiltAtSetup == 0

SetupRefs(v) == [s \in Slots |-> IF SetupArrays(v)[s] = Absent THEN NoObject ELSE BuiltAtSetup]

\* an assignment X = <new array> for every attribute in slots:
\* gpuarray.to_gpu(...) and X_gpu.get() both return a newly allocated array
Rebind(r, slots, obj) == [s \in Slots |-> IF s \in slots THEN obj ELSE r[s]]

\* ---- kernel calls ---------------------------------------------------------
\* cython_update_is(nwx, nwy, nwz, coeffs, ID, n_boundary_cells, offset, nwl,
\*                  nwm, nwn, face, field, inc_field_l, inc_field_u,
\*                  lookup_id, sign_l, sign_u, co, nthreads)
IsCall(coeffs, offset, nwl, nwm, nwn, face, field, inc_l, inc_u, lookup, sign_l, sign_u, co) ==
    [coeffs |-> <<"sub", coeffs, "host">>, id |-> <<"sub", "ID", "host">>,
     offset |-> offset, nwl |-> nwl, nwm |-> nwm, nwn |-> nwn, face |-> face,
     field |-> <<"sub", field, "host">>,
     inc_l |-> <<"prec", inc_l, "host">>, inc_u |-> <<"prec", inc_u, "host">>,
     lookup |-> lookup, sign_l |-> sign_l, sign_u |-> sign_u, co |-> co]

\* an index argument: a bound of the OS shell plus an offset (k_u + 1, j_l - 1)
B(bound, off) == [bound |-> bound, off |-> off]

\* cython_update_electric_os / cython_update_magnetic_os(coeffs, ID, face, l_l,
\*     l_u, m_l, m_u, n_l, n_u, nwn, lookup_id, field, inc_field, co, sign_n,
\*     sign_f, mid, r, s, nb, nthreads)
OsCall(coeffs, face, l_l, l_u, m_l, m_u, n_l, n_u, nwn, lookup, field, inc, co, sign_n, sign_f, mid) ==
    [coeffs |-> <<"main", coeffs, "host">>, id |-> <<"main", "ID", "host">>,
     face |-> face, l_l |-> l_l, l_u |-> l_u, m_l |-> m_l, m_u |-> m_u,
     n_l |-> n_l, n_u |-> n_u, nwn |-> nwn, lookup |-> lookup,
     field |-> <<"main", field, "host">>, inc |-> <<"sub", inc, "host">>,
     co |-> co, sign_n |-> sign_n, sign_f |-> sign_f, mid |-> mid]

\* the same call made on the device arrays (hsg_update_*_os kernels)
OnGpu(c) ==
    [c EXCEPT !.coeffs = <<c.coeffs[1], c.coeffs[2], "gpu">>,
              !.id = <<c.id[1], c.id[2], "gpu">>,
              !.field = <<c.field[1], c.field[2], "gpu">>,
              !.inc = <<c.inc[1], c.inc[2], "gpu">>]

\* mutant of UpdateMagneticIsCalls: the signs of the two front and back calls
\* exchanged
UpdateMagneticIsCalls_FrontBackSigns ==
    << IsCall("updatecoeffsH", -1, "nwx", "nwy+1", "nwz", 1, "Hy", "ex_bottom", "ex_top", "Hy", 1, -1, 3),
       IsCall("updatecoeffsH", -1, "nwx+1", "nwy", "nwz", 1, "Hx", "ey_bottom", "ey_top", "Hx", -1, 1, 3),
       IsCall("updatecoeffsH", -1, "nwy", "nwz+1", "nwx", 2, "Hz", "ey_left", "ey_right", "Hz", 1, -1, 1),
       IsCall("updatecoeffsH", -1, "nwy+1", "nwz", "nwx", 2, "Hy", "ez_left", "ez_right", "Hy", -1, 1, 1),
       IsCall("updatecoeffsH", -1, "nwx", "nwz+1", "nwy", 3, "Hz", "ex_front", "ex_back", "Hz", 1, -1, 2),
       IsCall("updatecoeffsH", -1, "nwx+1", "nwz", "nwy", 3, "Hx", "ez_front", "ez_back", "Hx", -1, 1, 2) >>

\* SubGridHSG.update_magnetic_is
UpdateMagneticIsCalls ==
    << IsCall("updatecoeffsH", -1, "nwx", "nwy+1", "nwz", 1, "Hy", "ex_bottom", "ex_top", "Hy", 1, -1, 3),
       IsCall("updatecoeffsH", -1, "nwx+1", "nwy", "nwz", 1, "Hx", "ey_bottom", "ey_top", "Hx", -1, 1, 3),
       IsCall("updatecoeffsH", -1, "nwy", "nwz+1", "nwx", 2, "Hz", "ey_left", "ey_right", "Hz", 1, -1, 1),
       IsCall("updatecoeffsH", -1, "nwy+1", "nwz", "nwx", 2, "Hy", "ez_left", "ez_right", "Hy", -1, 1, 1),
       IsCall("updatecoeffsH", -1, "nwx", "nwz+1", "nwy", 3, "Hz", "ex_front", "ex_back", "Hz", -1, 1, 2),
       IsCall("updatecoeffsH", -1, "nwx+1", "nwz", "nwy", 3, "Hx", "ez_front", "ez_back", "Hx", 1, -1, 2) >>

\* mutant of UpdateElectricIsCalls: the first call is handed the main grid's Ex
UpdateElectricIsCalls_MainField ==
    << [IsCall("updatecoeffsE", 0, "nwx", "nwy+1", "nwz", 1, "Ex", "hy_bottom", "hy_top", "Ex", 1, -1, 3)
            EXCEPT !.field = <<"main", "Ex", "host">>],
       IsCall("updatecoeffsE", 0, "nwx+1", "nwy", "nwz", 1, "Ey", "hx_bottom", "hx_top", "Ey", -1, 1, 3),
       IsCall("updatecoeffsE", 0, "nwy", "nwz+1", "nwx", 2, "Ey", "hz_left", "hz_right", "Ey", 1, -1, 1),
       IsCall("updatecoeffsE", 0, "nwy+1", "nwz", "nwx", 2, "Ez", "hy_left", "hy_right", "Ez", -1, 1, 1),
       IsCall("updatecoeffsE", 0, "nwx", "nwz+1", "nwy", 3, "Ex", "hz_front", "hz_back", "Ex", -1, 1, 2),
       IsCall("updatecoeffsE", 0, "nwx+1", "nwz", "nwy", 3, "Ez", "hx_front", "hx_back", "Ez", 1, -1, 2) >>

\* SubGridHSG.update_electric_is
UpdateElectricIsCalls ==
    << IsCall("updatecoeffsE", 0, "nwx", "nwy+1", "nwz", 1, "Ex", "hy_bottom", "hy_top", "Ex", 1, -1, 3),
       IsCall("updatecoeffsE", 0, "nwx+1", "nwy", "nwz", 1, "Ey", "hx_bottom", "hx_top", "Ey", -1, 1, 3),
       IsCall("updatecoeffsE", 0, "nwy", "nwz+1", "nwx", 2, "Ey", "hz_left", "hz_right", "Ey", 1, -1, 1),
       IsCall("updatecoeffsE", 0, "nwy+1", "nwz", "nwx", 2, "Ez", "hy_left", "hy_right", "Ez", -1, 1, 1),
       IsCall("updatecoeffsE", 0, "nwx", "nwz+1", "nwy", 3, "Ex", "hz_front", "hz_back", "Ex", -1, 1, 2),
       IsCall("updatecoeffsE", 0, "nwx+1", "nwz", "nwy", 3, "Ez", "hx_front", "hx_back", "Ez", 1, -1, 2) >>

\* mutant of UpdateElectricOsCalls: the Bottom and Top call for Ex is handed
\* j_u instead of j_u + 1 as the end of its second tangential range
UpdateElectricOsCalls_ShortRange ==
    << OsCall("updatecoeffsE", 3, B("i_l", 0), B("i_u", 0), B("k_l", 0), B("k_u", 1), B("j_l", 0), B("j_u", 0), "nwy", "Ex", "Ex", "Hz", 2, 1, -1, 1),
       OsCall("updatecoeffsE", 3, B("i_l", 0), B("i_u", 1), B("k_l", 0), B("k_u", 0), B("j_l", 0), B("j_u", 0), "nwy", "Ez", "Ez", "Hx", 2, -1, 1, 0),
       OsCall("updatecoeffsE", 2, B("j_l", 0), B("j_u", 0), B("k_l", 0), B("k_u", 1), B("i_l", 0), B("i_u", 0), "nwx", "Ey", "Ey", "Hz", 1, -1, 1, 1),
       OsCall("updatecoeffsE", 2, B("j_l", 0), B("j_u", 1), B("k_l", 0), B("k_u", 0), B("i_l", 0), B("i_u", 0), "nwx", "Ez", "Ez", "Hy", 1, 1, -1, 0),
       OsCall("updatecoeffsE", 1, B("i_l", 0), B("i_u", 0), B("j_l", 0), B("j_u", 0), B("k_l", 0), B("k_u", 0), "nwz", "Ex", "Ex", "Hy", 3, -1, 1, 1),
       OsCall("updatecoeffsE", 1, B("i_l", 0), B("i_u", 1), B("j_l", 0), B("j_u", 0), B("k_l", 0), B("k_u", 0), "nwz", "Ey", "Ey", "Hx", 3, 1, -1, 0) >>

\* SubGridHSG.update_electric_os
UpdateElectricOsCalls ==
    << OsCall("updatecoeffsE", 3, B("i_l", 0), B("i_u", 0), B("k_l", 0), B("k_u", 1), B("j_l", 0), B("j_u", 0), "nwy", "Ex", "Ex", "Hz", 2, 1, -1, 1),
       OsCall("updatecoeffsE", 3, B("i_l", 0), B("i_u", 1), B("k_l", 0), B("k_u", 0), B("j_l", 0), B("j_u", 0), "nwy", "Ez", "Ez", "Hx", 2, -1, 1, 0),
       OsCall("updatecoeffsE", 2, B("j_l", 0), B("j_u", 0), B("k_l", 0), B("k_u", 1), B("i_l", 0), B("i_u", 0), "nwx", "Ey", "Ey", "Hz", 1, -1, 1, 1),
       OsCall("updatecoeffsE", 2, B("j_l", 0), B("j_u", 1), B("k_l", 0), B("k_u", 0), B("i_l", 0), B("i_u", 0), "nwx", "Ez", "Ez", "Hy", 1, 1, -1, 0),
       OsCall("updatecoeffsE", 1, B("i_l", 0), B("i_u", 0), B("j_l", 0), B("j_u", 1), B("k_l", 0), B("k_u", 0), "nwz", "Ex", "Ex", "Hy", 3, -1, 1, 1),
       OsCall("updatecoeffsE", 1, B("i_l", 0), B("i_u", 1), B("j_l", 0), B("j_u", 0), B("k_l", 0), B("k_u", 0), "nwz", "Ey", "Ey", "Hx", 3, 1, -1, 0) >>

\* SubGridHSG.update_magnetic_os
UpdateMagneticOsCalls ==
    << OsCall("updatecoeffsH", 3, B("i_l", 0), B("i_u", 0), B("k_l", 0), B("k_u", 1), B("j_l", -1), B("j_u", 0), "nwy", "Hz", "Hz", "Ex", 2, 1, -1, 1),
       OsCall("updatecoeffsH", 3, B("i_l", 0), B("i_u", 1), B("k_l", 0), B("k_u", 0), B("j_l", -1), B("j_u", 0), "nwy", "Hx", "Hx", "Ez", 2, -1, 1, 0),
       OsCall("updatecoeffsH", 2, B("j_l", 0), B("j_u", 0), B("k_l", 0), B("k_u", 1), B("i_l", -1), B("i_u", 0), "nwx", "Hz", "Hz", "Ey", 1, -1, 1, 1),
       OsCall("updatecoeffsH", 2, B("j_l", 0), B("j_u", 1), B("k_l", 0), B("k_u", 0), B("i_l", -1), B("i_u", 0), "nwx", "Hy", "Hy", "Ez", 1, 1, -1, 0),
       OsCall("updatecoeffsH", 1, B("i_l", 0), B("i_u", 0), B("j_l", 0), B("j_u", 1), B("k_l", -1), B("k_u", 0), "nwz", "Hy", "Hy", "Ex", 3, -1, 1, 1),
       OsCall("updatecoeffsH", 1, B("i_l", 0), B("i_u", 1), B("j_l", 0), B("j_u", 0), B("k_l", -1), B("k_u", 0), "nwz", "Hx", "Hx", "Ey", 3, 1, -1, 0) >>

\* CUDASubGridHSG.update_electric_os: the six hsg_update_electric_os launches
CudaUpdateElectricOsCalls ==
    << OnGpu(OsCall("updatecoeffsE", 3, B("i_l", 0), B("i_u", 0), B("k_l", 0), B("k_u", 1), B("j_l", 0), B("j_u", 0), "nwy", "Ex", "Ex", "Hz", 2, 1, -1, 1)),
       OnGpu(OsCall("updatecoeffsE", 3, B("i_l", 0), B("i_u", 1), B("k_l", 0), B("k_u", 0), B("j_l", 0), B("j_u", 0), "nwy", "Ez", "Ez", "Hx", 2, -1, 1, 0)),
       OnGpu(OsCall("updatecoeffsE", 2, B("j_l", 0), B("j_u", 0), B("k_l", 0), B("k_u", 1), B("i_l", 0), B("i_u", 0), "nwx", "Ey", "Ey", "Hz", 1, -1, 1, 1)),
       OnGpu(OsCall("updatecoeffsE", 2, B("j_l", 0), B("j_u", 1), B("k_l", 0), B("k_u", 0), B("i_l", 0), B("i_u", 0), "nwx", "Ez", "Ez", "Hy", 1, 1, -1, 0)),
       OnGpu(OsCall("updatecoeffsE", 1, B("i_l", 0), B("i_u", 0), B("j_l", 0), B("j_u", 1), B("k_l", 0), B("k_u", 0), "nwz", "Ex", "Ex", "Hy", 3, -1, 1, 1)),
       OnGpu(OsCall("updatecoeffsE", 1, B("i_l", 0), B("i_u", 1), B("j_l", 0), B("j_u", 0), B("k_l", 0), B("k_u", 0), "nwz", "Ey", "Ey", "Hx", 3, 1, -1, 0)) >>

\* CUDASubGridHSG.update_magnetic_os: the six hsg_update_magnetic_os launches
CudaUpdateMagneticOsCalls ==
    << OnGpu(OsCall("updatecoeffsH", 3, B("i_l", 0), B("i_u", 0), B("k_l", 0), B("k_u", 1), B("j_l", -1), B("j_u", 0), "nwy", "Hz", "Hz", "Ex", 2, 1, -1, 1)),
       OnGpu(OsCall("updatecoeffsH", 3, B("i_l", 0), B("i_u", 1), B("k_l", 0), B("k_u", 0), B("j_l", -1), B("j_u", 0), "nwy", "Hx", "Hx", "Ez", 2, -1, 1, 0)),
       OnGpu(OsCall("updatecoeffsH", 2, B("j_l", 0), B("j_u", 0), B("k_l", 0), B("k_u", 1), B("i_l", -1), B("i_u", 0), "nwx", "Hz", "Hz", "Ey", 1, -1, 1, 1)),
       OnGpu(OsCall("updatecoeffsH", 2, B("j_l", 0), B("j_u", 1), B("k_l", 0), B("k_u", 0), B("i_l", -1), B("i_u", 0), "nwx", "Hy", "Hy", "Ez", 1, 1, -1, 0)),
       OnGpu(OsCall("updatecoeffsH", 1, B("i_l", 0), B("i_u", 0), B("j_l", 0), B("j_u", 1), B("k_l", -1), B("k_u", 0), "nwz", "Hy", "Hy", "Ex", 3, -1, 1, 1)),
       OnGpu(OsCall("updatecoeffsH", 1, B("i_l", 0), B("i_u", 1), B("j_l", 0), B("j_u", 0), B("k_l", -1), B("k_u", 0), "nwz", "Hx", "Hx", "Ey", 3, 1, -1, 0)) >>

\* hsg_update_is(nwx, nwy, nwz, n_boundary_cells, offset, nwl, nwm, face, co,
\*               sign_l, sign_u, lookup_id, <precursor node coefficient>,
\*               coeffs, ID, field, inc_field_l, inc_field_u), on device arrays
IsLaunch(coeffs, offset, nwl, nwm, face, co, sign_l, sign_u, lookup, shape, field, inc_l, inc_u) ==
    [coeffs |-> <<"sub", coeffs, "gpu">>, id |-> <<"sub", "ID", "gpu">>,
     offset |-> offset, nwl |-> nwl, nwm |-> nwm, face |-> face, co |-> co,
     sign_l |-> sign_l, sign_u |-> sign_u, lookup |-> lookup, shape |-> shape,
     field |-> <<"sub", field, "gpu">>,
     inc_l |-> <<"prec", inc_l, "gpu">>, inc_u |-> <<"prec", inc_u, "gpu">>]

\* CUDASubGridHSG.update_magnetic_is: the six hsg_update_is launches that
\* follow the call of __htod_precursor_fields
CudaUpdateMagneticIsLaunches ==
    << IsLaunch("updatecoeffsH", -1, "nwx", "nwy+1", 1, 3, 1, -1, "Hy", "ex_bottom", "Hy", "ex_bottom", "ex_top"),
       IsLaunch("updatecoeffsH", -1, "nwx+1", "nwy", 1, 3, -1, 1, "Hx", "ey_bottom", "Hx", "ey_bottom", "ey_top"),
       IsLaunch("updatecoeffsH", -1, "nwy", "nwz+1", 2, 1, 1, -1, "Hz", "ey_left", "Hz", "ey_left", "ey_right"),
       IsLaunch("updatecoeffsH", -1, "nwy+1", "nwz", 2, 1, -1, 1, "Hy", "ez_left", "Hy", "ez_left", "ez_right"),
       IsLaunch("updatecoeffsH", -1, "nwx", "nwz+1", 3, 2, 1, -1, "Hz", "ex_front", "Hz", "ex_front", "ex_back"),
       IsLaunch("updatecoeffsH", -1, "nwx+1", "nwz", 3, 2, -1, 1, "Hx", "ez_front", "Hx", "ez_front", "ez_back") >>

\* CUDASubGridHSG.update_electric_is: the six hsg_update_is launches that
\* follow the call of __htod_precursor_fields
CudaUpdateElectricIsLaunches ==
    << IsLaunch("updatecoeffsE", 0, "nwx", "nwy+1", 1, 3, 1, -1, "Ex", "hy_bottom", "Ex", "hy_bottom", "hy_top"),
       IsLaunch("updatecoeffsE", 0, "nwx+1", "nwy", 1, 3, -1, 1, "Ey", "hx_bottom", "Ey", "hx_bottom", "hx_top"),
       IsLaunch("updatecoeffsE", 0, "nwy", "nwz+1", 2, 1, 1, -1, "Ey", "hz_left", "Ey", "hz_left", "hz_right"),
       IsLaunch("updatecoeffsE", 0, "nwy+1", "nwz", 2, 1, -1, 1, "Ez", "hy_left", "Ez", "hy_left", "hy_right"),
       IsLaunch("updatecoeffsE", 0, "nwx", "nwz+1", 3, 2, -1, 1, "Ex", "hz_front", "Ex", "hz_front", "hz_back"),
       IsLaunch("updatecoeffsE", 0, "nwx+1", "nwz", 3, 2, 1, -1, "Ez", "hx_front", "Ex", "hx_front", "hx_back") >>

\* the kernel calls that the method op of the variant v is written to make,
\* in the order of the source
CallSites(v, op) ==
    CASE v = "cpu" /\ op = "update_magnetic_is" -> UpdateMagneticIsCalls
      [] v = "cpu" /\ op = "update_electric_is" -> UpdateElectricIsCalls
      [] v = "cpu" /\ op = "update_electric_os" -> UpdateElectricOsCalls
      [] v = "cpu" /\ op = "update_magnetic_os" -> UpdateMagneticOsCalls
      [] v = "cuda" /\ op = "update_magnetic_is" -> CudaUpdateMagneticIsLaunches
      [] v = "cuda" /\ op = "update_electric_is" -> CudaUpdateElectricIsLaunches
      [] v = "cuda" /\ op = "update_electric_os" -> CudaUpdateElectricOsCalls
      [] v = "cuda" /\ op = "update_magnetic_os" -> CudaUpdateMagneticOsCalls

\* ---- the kernels ----------------------------------------------------------
\* One IS or OS kernel call (cython_update_is, cython_update_*_os and the
\* hsg_update_* device kernels): it reads its coefficient, ID and incident
\* field arrays and writes the array handed in as field.
KernelWrite(a, tok, call) == [a EXCEPT ![call.field] = tok]

\* the calls of a pass, one after the other; the i-th write yields token f + i
RECURSIVE RunKernels(_, _, _, _)
RunKernels(a, f, calls, i) ==
    IF i > Len(calls) THEN a
    ELSE RunKernels(KernelWrite(a, f + i, calls[i]), f, calls, i + 1)

\* gpuarray.to_gpu(X) bound to X_gpu, for every attribute in names of owner
ToGpu(a, owner, names) ==
    [s \in Slots |->
        IF s[1] = owner /\ s[2] \in names /\ s[3] = "gpu"
          THEN a[<<owner, s[2], "host">>] ELSE a[s]]

\* X = X_gpu.get(), for every attribute in names of owner
FromGpu(a, owner, names) ==
    [s \in Slots |->
        IF s[1] = owner /\ s[2] \in names /\ s[3] = "host"
          THEN a[<<owner, s[2], "gpu">>] ELSE a[s]]

\* ---- Init ------------------------------------------------------------------
InitInj ==
    /\ variant \in {"cpu", "cuda"}
    /\ arr = SetupArrays(variant)
    /\ fresh = 0
    /\ nops = 0
    /\ lastop = <<"setup", "ok">>
    /\ pre = SetupArrays(variant)
    /\ ref = SetupRefs(variant)
    /\ issued = <<>>
    /\ previous = [op |-> "none", calls |-> <<>>]
    /\ SolverIdle
    /\ GeomIdle
    /\ BackendsIdle
    /\ RoughIdle

\* an operation op that ended with res and left the arrays as a, having
\* handed out n tokens
Done(op, res, a, n) ==
    /\ nops < MaxOps
    /\ nops' = nops + 1
    /\ lastop' = <<op, res>>
    /\ pre' = arr
    /\ previous' = [op |-> lastop[1], calls |-> issued]
    /\ arr' = a
    /\ fresh' = fresh + n
    /\ UNCHANGED <<variant, solverVars, geomVars, backendVars, roughVars>>

\* ---- SubGridHSG -------------------------------------------------------------
CpuUpdateMagneticIs ==
    /\ variant = "cpu"
    /\ Done("update_magnetic_is", "ok",
            RunKernels(arr, fresh, UpdateMagneticIsCalls, 1), Len(UpdateMagneticIsCalls))
    /\ ref' = ref
    /\ issued' = UpdateMagneticIsCalls

CpuUpdateElectricIs ==
    /\ variant = "cpu"
    /\ Done("update_electric_is", "ok",
            RunKernels(arr, fresh, UpdateElectricIsCalls, 1), Len(UpdateElectricIsCalls))
    /\ ref' = ref
    /\ issued' = UpdateElectricIsCalls

CpuUpdateElectricOs ==
    /\ variant = "cpu"
    /\ Done("update_electric_os", "ok",
            RunKernels(arr, fresh, UpdateElectricOsCalls, 1), Len(UpdateElectricOsCalls))
    /\ ref' = ref
    /\ issued' = UpdateElectricOsCalls

CpuUpdateMagneticOs ==
    /\ variant = "cpu"
    /\ Done("update_magnetic_os", "ok",
            RunKernels(arr, fresh, UpdateMagneticOsCalls, 1), Len(UpdateMagneticOsCalls))
    /\ ref' = ref
    /\ issued' = UpdateMagneticOsCalls

\* ---- CUDASubGridHSG ---------------------------------------------------------
\* update_magnetic_is / update_electric_is begin with
\* self.__htod_precursor_fields(precursors, offset); the method is declared
\* with the two parameters (precursors, offset) and no self, so the bound call
\* passes three arguments and raises TypeError before anything is written.
CudaUpdateMagneticIs ==
    /\ variant = "cuda"
    /\ Done("update_magnetic_is", "TypeError", arr, 0)
    /\ ref' = ref
    /\ issued' = <<>>

CudaUpdateElectricIs ==
    /\ variant = "cuda"
    /\ Done("update_electric_is", "TypeError", arr, 0)
    /\ ref' = ref
    /\ issued' = <<>>

\* update_electric_os: upload main_grid.ID, updatecoeffsE, Ex, Ey, Ez and
\* self.Hx, Hy, Hz; six kernel launches; main_grid.Ex, Ey, Ez = *_gpu.get()
CudaUpdateElectricOs ==
    /\ variant = "cuda"
    /\ LET a1 == ToGpu(arr, "main", {"ID", "updatecoeffsE"} \cup EFields)
           a2 == ToGpu(a1, "sub", HFields)
           a3 == RunKernels(a2, fresh, CudaUpdateElectricOsCalls, 1)
       IN  Done("update_electric_os", "ok", FromGpu(a3, "main", EFields),
                Len(CudaUpdateElectricOsCalls))
    /\ ref' = Rebind(ref,
                ({"main"} \X ({"ID", "updatecoeffsE"} \cup EFields) \X {"gpu"})
                   \cup ({"sub"} \X HFields \X {"gpu"})
                   \cup ({"main"} \X EFields \X {"host"}),
                nops + 1)
    /\ issued' = CudaUpdateElectricOsCalls

\* update_magnetic_os: upload main_grid.ID, updatecoeffsH, Hx, Hy, Hz; six
\* kernel launches; main_grid.Hx, Hy, Hz = *_gpu.get()
CudaUpdateMagneticOs ==
    /\ variant = "cuda"
    /\ LET a1 == ToGpu(arr, "main", {"ID", "updatecoeffsH"} \cup HFields)
           a3 == RunKernels(a1, fresh, CudaUpdateMagneticOsCalls, 1)
       IN  Done("update_magnetic_os", "ok", FromGpu(a3, "main", HFields),
                Len(CudaUpdateMagneticOsCalls))
    /\ ref' = Rebind(ref,
                ({"main"} \X ({"ID", "updatecoeffsH"} \cup HFields) \X {"gpu"})
                   \cup ({"main"} \X HFields \X {"host"}),
                nops + 1)
    /\ issued' = CudaUpdateMagneticOsCalls

\* ---- the collaborators ------------------------------------------------------
\* A grid update kernel (field advance, PML, sources) works in place on the
\* field arrays of its grid: the host arrays of the main grid and of a
\* SubGridHSG, the device arrays of a CUDASubGridHSG.
AdvanceWrite(a, f, owner, place, kind) ==
    [s \in Slots |->
        IF s[1] = owner /\ s[3] = place /\ s[2] \in (IF kind = "E" THEN EFields ELSE HFields)
          THEN f + 1 ELSE a[s]]

FineAdvance ==
    /\ variant \in {"cpu", "cuda"}
    /\ \E kind \in {"E", "H"} :
        Done(IF kind = "E" THEN "sub.update_electric" ELSE "sub.update_magnetic", "ok",
             AdvanceWrite(arr, fresh, "sub", IF variant = "cuda" THEN "gpu" ELSE "host", kind), 1)
    /\ ref' = ref
    /\ issued' = <<>>

MainAdvance ==
    /\ variant \in {"cpu", "cuda"}
    /\ \E kind \in {"E", "H"} :
        Done(IF kind = "E" THEN "main.update_electric" ELSE "main.update_magnetic", "ok",
             AdvanceWrite(arr, fresh, "main", "host", kind), 1)
    /\ ref' = ref
    /\ issued' = <<>>

\* precursors.update_* / interpolate_*_in_time / calc_exact_*_in_time fill the
\* host precursor arrays of one field from the main grid
PrecursorCompute ==
    /\ variant \in {"cpu", "cuda"}
    /\ \E kind \in {"E", "H"} :
        Done(IF kind = "E" THEN "precursors.electric" ELSE "precursors.magnetic", "ok",
             [s \in Slots |->
                 IF s[1] = "prec" /\ s[3] = "host" /\ s[2] \in (IF kind = "E" THEN PrecE ELSE PrecH)
                   THEN fresh + 1 ELSE arr[s]], 1)
    /\ ref' = ref
    /\ issued' = <<>>

NextInj ==
    \/ CpuUpdateMagneticIs
    \/ CpuUpdateElectricIs
    \/ CpuUpdateElectricOs
    \/ CpuUpdateMagneticOs
    \/ CudaUpdateMagneticIs
    \/ CudaUpdateElectricIs
    \/ CudaUpdateElectricOs
    \/ CudaUpdateMagneticOs
    \/ FineAdvance
    \/ MainAdvance
    \/ PrecursorCompute

SpecInj == InitInj /\ [][NextInj]_vars

\* ================================================================ SpecBackends
\* A SubgridUpdater running hsg_1 (hsg_2) and a CUDASubgridUpdater running
\* hsg1_gpu (hsg2_gpu), each on a sub-grid of the same ratio, each at its own
\* pace.  A run is the class of the updater's sub-grid, the position in the
\* method and the calls made so far, each with its target, its name and its
\* argument.  Either updater takes the sub-grid it is constructed with.
SubGridClasses == {"SubGridHSG", "CUDASubGridHSG"}

\* sub_grid.update_electric_is(precursors) / update_magnetic_is(precursors) of
\* a CUDASubGridHSG begin with self.__htod_precursor_fields(precursors,
\* offset), declared without self: the call raises TypeError, which hsg_1 /
\* hsg_2 / hsg1_gpu / hsg2_gpu do not catch
IsPassRaises(grid, st) ==
    /\ grid = "CUDASubGridHSG"
    /\ st.tgt = "sub_grid"
    /\ st.op \in {"update_electric_is", "update_magnetic_is"}

\* the position after the statement st at place pos of the list l (the loop
\* body, then back to "for"; the tail, then "done"): the method ends there
\* when the call raises
PositionAfter(run, l, st, back) ==
    IF IsPassRaises(run.grid, st) THEN <<"TypeError", 0>>
    ELSE IF run.pos = Len(l) THEN <<back, 0>>
    ELSE <<run.at, run.pos + 1>>

Called(st, m, ratio) == [tgt |-> st.tgt, op |-> st.op, arg |-> ArgOf(st, m, ratio)]

\* the next step of a method made of the statement head, the loop
\* "for m in range(1, upper_m + 1)" over the statements body, and the
\* statements rest
Advance(run, head, body, rest, ratio) ==
    CASE run.at = "pre" ->
            [run EXCEPT !.at = "for", !.m = 0, !.trace = Append(@, Called(head, 0, ratio))]
      [] run.at = "for" ->
            IF run.m + 1 < UpperM(ratio) + 1
              THEN [run EXCEPT !.at = "loop", !.m = run.m + 1, !.pos = 1]
              ELSE [run EXCEPT !.at = "tail", !.pos = 1]
      [] run.at = "loop" ->
            [run EXCEPT !.at = PositionAfter(run, body, body[run.pos], "for")[1],
                        !.pos = PositionAfter(run, body, body[run.pos], "for")[2],
                        !.trace = Append(@, Called(body[run.pos], run.m, ratio))]
      [] run.at = "tail" ->
            [run EXCEPT !.at = PositionAfter(run, rest, rest[run.pos], "done")[1],
                        !.pos = PositionAfter(run, rest, rest[run.pos], "done")[2],
                        !.trace = Append(@, Called(rest[run.pos], run.m, ratio))]

InitBackends ==
    /\ backends \in [ratio : 1..MaxRatio, phase : {"hsg_1", "hsg_2"},
                     cpu : {[NoRun EXCEPT !.at = "pre", !.grid = g] : g \in SubGridClasses},
                     cuda : {[NoRun EXCEPT !.at = "pre", !.grid = g] : g \in SubGridClasses}]
    /\ SolverIdle
    /\ InjIdle
    /\ GeomIdle
    /\ RoughIdle

\* SubgridUpdater.hsg_1 / hsg_2
CpuUpdaterStep ==
    /\ backends.cpu.at \in {"pre", "for", "loop", "tail"}
    /\ backends' = [backends EXCEPT !.cpu =
          Advance(@, PreOf(backends.phase), LoopOf(backends.phase),
                  TailOf(backends.phase), backends.ratio)]
    /\ UNCHANGED <<solverVars, injVars, geomVars, roughVars>>

\* CUDASubgridUpdater.hsg1_gpu / hsg2_gpu
CudaUpdaterStep ==
    /\ backends.cuda.at \in {"pre", "for", "loop", "tail"}
    /\ backends' = [backends EXCEPT !.cuda =
          Advance(@, GpuPreOf(backends.phase), GpuLoopOf(backends.phase),
                  GpuTailOf(backends.phase), backends.ratio)]
    /\ UNCHANGED <<solverVars, injVars, geomVars, roughVars>>

NextBackends ==
    \/ CpuUpdaterStep
    \/ CudaUpdaterStep

SpecBackends == InitBackends /\ [][NextBackends]_vars

\* ==================================================================== SpecGeom
\* i_l = self.i0 - self.is_os_sep ... k_u = self.k1 + self.is_os_sep
OsBound(g, name) ==
    CASE name = "i_l" -> g.i0 - g.is_os_sep
      [] name = "i_u" -> g.i1 + g.is_os_sep
      [] name = "j_l" -> g.j0 - g.is_os_sep
      [] name = "j_u" -> g.j1 + g.is_os_sep
      [] name = "k_l" -> g.k0 - g.is_os_sep
      [] name = "k_u" -> g.k1 + g.is_os_sep

\* the value of an index argument of an OS kernel call
IndexOf(g, b) == OsBound(g, b.bound) + b.off

\* The main-grid cell an OS kernel writes for the tangential indices l, m and
\* the normal index n: face 1 (bottom and top) has its normal along z, face 2
\* (left and right) along x, face 3 (front and back) along y.
OsCell(face, l, m, n) ==
    CASE face = 1 -> <<l, m, n>>
      [] face = 2 -> <<n, l, m>>
      [] face = 3 -> <<l, n, m>>

\* the cells one OS kernel call writes on the face at normal index n: l runs
\* over range(l_l, l_u), m over range(m_l, m_u)
OsFaceCells(g, call, n) ==
    {OsCell(call.face, l, m, n) :
        l \in IndexOf(g, call.l_l)..(IndexOf(g, call.l_u) - 1),
        m \in IndexOf(g, call.m_l)..(IndexOf(g, call.m_u) - 1)}

\* what one OS pass writes: per kernel call the updated component and the
\* cells of the near (n_l) and of the far (n_u) face
OsWrites(g, calls) ==
    [c \in 1..Len(calls) |->
        [field |-> calls[c].field[2], face |-> calls[c].face,
         near |-> OsFaceCells(g, calls[c], IndexOf(g, calls[c].n_l)),
         far |-> OsFaceCells(g, calls[c], IndexOf(g, calls[c].n_u))]]

\* main_grid.nx, ny, nz: the main grid has MainGridSize cells per axis, its
\* field arrays MainGridSize + 1 entries
MainGridSize == MaxLow + MaxExtent + 1

\* Sub-grid placements: is_os_sep >= 1 and a working region of 1..MaxExtent
\* main-grid cells per axis that lies inside the main grid, its low corner at
\* (i0, j0, j0).  Nothing relates the placement to is_os_sep: the OS shell may
\* reach beyond the grid.
Boxes ==
    {g \in [i0 : 0..MaxLow, j0 : 0..MaxLow, k0 : 0..MaxLow,
            i1 : 1..(MaxLow + MaxExtent), j1 : 1..(MaxLow + MaxExtent),
            k1 : 1..(MaxLow + MaxExtent), is_os_sep : 1..MaxSep] :
        /\ g.k0 = g.j0
        /\ g.i1 - g.i0 \in 1..MaxExtent
        /\ g.j1 - g.j0 \in 1..MaxExtent
        /\ g.k1 - g.k0 \in 1..MaxExtent}

\* the ratios of the placed sub-grid
GeomRatios == {2, 3}

Geometries ==
    {[ratio |-> r,
      i0 |-> b.i0, j0 |-> b.j0, k0 |-> b.k0, i1 |-> b.i1, j1 |-> b.j1, k1 |-> b.k1,
      is_os_sep |-> b.is_os_sep,
      nx |-> MainGridSize, ny |-> MainGridSize, nz |-> MainGridSize] :
        b \in Boxes, r \in GeomRatios}

InitGeom ==
    /\ geom \in Geometries
    /\ written = NoPass
    /\ SolverIdle
    /\ InjIdle
    /\ BackendsIdle
    /\ RoughIdle

\* the local names i_l .. k_u an OS pass computes first
OsBounds(g) ==
    [i_l |-> OsBound(g, "i_l"), i_u |-> OsBound(g, "i_u"),
     j_l |-> OsBound(g, "j_l"), j_u |-> OsBound(g, "j_u"),
     k_l |-> OsBound(g, "k_l"), k_u |-> OsBound(g, "k_u")]

\* the record of one OS pass: which method of which class ran, the bounds it
\* computed, the cells its six kernel calls write; first keeps the bounds of
\* the first OS pass of the run, again tells that this is not the first one
OsPass(pass, v, calls) ==
    [pass |-> pass, variant |-> v, calls |-> OsWrites(geom, calls),
     bounds |-> OsBounds(geom),
     first |-> IF written.first = NoBounds THEN OsBounds(geom) ELSE written.first,
     again |-> written.first # NoBounds]

\* the record of one IS pass: it computes no OS bounds and writes no
\* main-grid cell
IsPass(pass, v) ==
    [pass |-> pass, variant |-> v, calls |-> <<>>,
     bounds |-> NoBounds, first |-> written.first, again |-> FALSE]

\* mutant of GeomUpdateElectricOs: the bounds are computed in place, in the
\* attributes of the sub-grid
GeomUpdateElectricOs_InPlace ==
    /\ written.pass # "update_electric_os"
    /\ geom' = [geom EXCEPT !.i0 = geom.i0 - geom.is_os_sep, !.i1 = geom.i1 + geom.is_os_sep]
    /\ written' = [OsPass("update_electric_os", "cpu", UpdateElectricOsCalls)
                      EXCEPT !.bounds = OsBounds([geom EXCEPT !.is_os_sep = 0])]
    /\ UNCHANGED <<solverVars, injVars, backendVars, roughVars>>

\* SubGridHSG.update_electric_is / update_magnetic_is read self.nwx, nwy,
\* nwz, n_boundary_cells and the arrays; they assign no attribute
GeomUpdateElectricIs ==
    /\ geom \in Geometries
    /\ written' = IsPass("update_electric_is", "cpu")
    /\ UNCHANGED <<geom, solverVars, injVars, backendVars, roughVars>>

GeomUpdateMagneticIs ==
    /\ geom \in Geometries
    /\ written' = IsPass("update_magnetic_is", "cpu")
    /\ UNCHANGED <<geom, solverVars, injVars, backendVars, roughVars>>

GeomUpdateElectricOs ==
    /\ geom \in Geometries
    /\ written' = OsPass("update_electric_os", "cpu", UpdateElectricOsCalls)
    /\ UNCHANGED <<geom, solverVars, injVars, backendVars, roughVars>>

GeomUpdateMagneticOs ==
    /\ geom \in Geometries
    /\ written' = OsPass("update_magnetic_os", "cpu", UpdateMagneticOsCalls)
    /\ UNCHANGED <<geom, solverVars, injVars, backendVars, roughVars>>

GeomCudaUpdateElectricOs ==
    /\ geom \in Geometries
    /\ written' = OsPass("update_electric_os", "cuda", CudaUpdateElectricOsCalls)
    /\ UNCHANGED <<geom, solverVars, injVars, backendVars, roughVars>>

GeomCudaUpdateMagneticOs ==
    /\ geom \in Geometries
    /\ written' = OsPass("update_magnetic_os", "cuda", CudaUpdateMagneticOsCalls)
    /\ UNCHANGED <<geom, solverVars, injVars, backendVars, roughVars>>

NextGeom ==
    \/ GeomUpdateElectricIs
    \/ GeomUpdateMagneticIs
    \/ GeomUpdateElectricOs
    \/ GeomUpdateMagneticOs
    \/ GeomCudaUpdateElectricOs
    \/ GeomCudaUpdateMagneticOs

SpecGeom == InitGeom /\ [][NextGeom]_vars

\* =================================================================== history
\* Helpers over the history variable log.
Ops(seq) == [i \in 1..Len(seq) |-> seq[i].op]

IsSolverEv(e) == e.lvl = "solver"

\* the calls Solver.solve has made on self.updates, in order
SolverEvents == SelectSeq(log, IsSolverEv)

\* index of the last event of level lvl at or before i (0 if none)
RECURSIVE LastLvl(_, _)
LastLvl(lvl, i) ==
    IF i = 0 THEN 0
    ELSE IF log[i].lvl = lvl THEN i
    ELSE LastLvl(lvl, i - 1)

\* index of the last "call" event of updater u with phase ph at or before i
RECURSIVE LastCallOf(_, _, _)
LastCallOf(u, ph, i) ==
    IF i = 0 THEN 0
    ELSE IF log[i].lvl = "call" /\ log[i].g = u /\ log[i].op = ph THEN i
    ELSE LastCallOf(u, ph, i - 1)

\* the events strictly after index i
After(i) == SubSeq(log, i + 1, Len(log))

\* the calls made inside the sub-grid updater call that is running, or that
\* returned last (the "call" and "ret" markers excluded)
IsSubEv(e) == e.lvl = "sub"
CurrentCall == SelectSeq(After(LastLvl("call", Len(log))), IsSubEv)

Count(seq, tgt, op) == Cardinality({i \in 1..Len(seq) : seq[i].tgt = tgt /\ seq[i].op = op})

JustReturned(ph) ==
    /\ Len(log) > 0
    /\ log[Len(log)].lvl = "ret"
    /\ log[Len(log)].op = ph

\* seq repeats the cycle pat: seq[i] = pat[((i-1) mod Len(pat)) + 1]
Cycles(seq, pat) == \A i \in 1..Len(seq) : seq[i] = pat[((i - 1) % Len(pat)) + 1]

\* ==================================================================== claims

\* ---- C1 ------------------------------------------------------------------
\* C1: with hsg True, the calls Solver.solve makes in its loop body are, in
\* every iteration, store_outputs, store_snapshots(iteration), update_magnetic,
\* update_magnetic_pml, update_magnetic_sources, hsg_2, update_electric_a,
\* update_electric_pml, update_electric_sources, hsg_1, update_electric_b, in
\* this order; every call of a sub-grid updater's hsg_2 lies between the
\* solver's hsg_2 and update_electric_a, every call of hsg_1 between the
\* solver's hsg_1 and update_electric_b.  (The log only grows by appending,
\* so the condition on sub-grid calls is stated for the call made last: it
\* then holds of every call in the log.)
CanonicalOrder ==
    << "store_outputs", "store_snapshots", "update_magnetic", "update_magnetic_pml",
       "update_magnetic_sources", "hsg_2", "update_electric_a", "update_electric_pml",
       "update_electric_sources", "hsg_1", "update_electric_b" >>

IsMainGridEv(e) ==
    /\ e.lvl = "solver"
    /\ e.op \in {CanonicalOrder[i] : i \in 1..Len(CanonicalOrder)}

MainGridEvents == SelectSeq(log, IsMainGridEv)

C1_CanonicalOrder ==
    hsg =>
      /\ Cycles(Ops(MainGridEvents), CanonicalOrder)
      /\ \A i \in 1..Len(MainGridEvents) :
            MainGridEvents[i].op = "store_snapshots"
               => MainGridEvents[i].arg = (i - 1) \div Len(CanonicalOrder)
      /\ (Len(log) > 0 /\ log[Len(log)].lvl \in {"call", "sub", "ret"})
            => LET e == log[Len(log)]
                   s == LastLvl("solver", Len(log))
               IN  /\ s > 0
                   /\ log[s].op \in {"hsg_1", "hsg_2"}
                   /\ e.lvl \in {"call", "ret"} => e.op = log[s].op

C1_Witness ==
    /\ hsg
    /\ Len(ratios) >= 1
    /\ Len(MainGridEvents) = 2 * Len(CanonicalOrder)
    /\ \E i \in 1..Len(log) : log[i].lvl = "sub"

\* ---- C2 ------------------------------------------------------------------
\* C2: after every completed iteration the solver has called hsg_1 and hsg_2
\* once per iteration if hsg is True and never if hsg is False (in which case
\* no sub-grid updater runs either); with hsg False the other nine main-grid
\* calls keep their relative order.
NineOrder ==
    << "store_outputs", "store_snapshots", "update_magnetic", "update_magnetic_pml",
       "update_magnetic_sources", "update_electric_a", "update_electric_pml",
       "update_electric_sources", "update_electric_b" >>

C2_HsgOncePerIteration ==
    /\ (pc = "for" /\ hsg)
          => /\ Count(SolverEvents, "updates", "hsg_1") = iteration + 1
             /\ Count(SolverEvents, "updates", "hsg_2") = iteration + 1
             /\ Count(SolverEvents, "updates", "update_electric_b") = iteration + 1
    /\ hsg => /\ Count(SolverEvents, "updates", "hsg_2")
                   - Count(SolverEvents, "updates", "hsg_1") \in {0, 1}
              /\ Count(SolverEvents, "updates", "hsg_1")
                   - Count(SolverEvents, "updates", "update_electric_b") \in {0, 1}
    /\ ~hsg
          => /\ \A i \in 1..Len(log) :
                   /\ log[i].op \notin {"hsg_1", "hsg_2"}
                   /\ log[i].lvl \notin {"call", "sub", "ret"}
             /\ Cycles(Ops(MainGridEvents), NineOrder)
             /\ (pc = "for" => Len(MainGridEvents) = Len(NineOrder) * (iteration + 1))

C2_Witness ==
    /\ pc = "done"
    /\ hsg
    /\ Count(SolverEvents, "updates", "hsg_1") = 2
    /\ Count(SolverEvents, "updates", "hsg_2") = 2

\* ---- C3 ------------------------------------------------------------------
\* C3: for an odd ratio >= 3, a sub-grid updater's hsg_1 makes (ratio-1)/2 + 1
\* calls of update_electric_a and (ratio-1)/2 of update_magnetic, its hsg_2
\* (ratio-1)/2 + 1 of update_magnetic and (ratio-1)/2 of update_electric_a;
\* one hsg_2 followed by one hsg_1 makes ratio of each.
OddRatio(r) == r >= 3 /\ r % 2 = 1

IsOfUpdater(e, u) == e.lvl = "sub" /\ e.g = u

C3_FineAdvanceCounts ==
    (Len(log) > 0 /\ log[Len(log)].lvl = "ret" /\ OddRatio(ratios[log[Len(log)].g]))
      => LET u == log[Len(log)].g
             r == ratios[u]
             e == Count(CurrentCall, "self", "update_electric_a")
             h == Count(CurrentCall, "self", "update_magnetic")
             step == SelectSeq(After(LastCallOf(u, "hsg_2", Len(log))),
                               LAMBDA x : IsOfUpdater(x, u))
         IN  /\ JustReturned("hsg_1") => e = (r - 1) \div 2 + 1 /\ h = (r - 1) \div 2
             /\ JustReturned("hsg_2") => h = (r - 1) \div 2 + 1 /\ e = (r - 1) \div 2
             /\ JustReturned("hsg_1")
                   => /\ Count(step, "self", "update_electric_a") = r
                      /\ Count(step, "self", "update_magnetic") = r

C3_Witness ==
    /\ JustReturned("hsg_1")
    /\ ratios[log[Len(log)].g] = 5
    /\ Count(CurrentCall, "self", "update_electric_a") = 3
    /\ Count(CurrentCall, "self", "update_magnetic") = 2

\* ---- C4 ------------------------------------------------------------------
\* C4: on every sub-grid, the calls update_electric_a, update_electric_pml,
\* update_electric_is, update_electric_sources occur only in this cyclic
\* order (advance, PML, IS injection, source injection, then the next
\* advance), and likewise update_magnetic, update_magnetic_pml,
\* update_magnetic_is, update_magnetic_sources.
ElectricStep ==
    << "update_electric_a", "update_electric_pml", "update_electric_is",
       "update_electric_sources" >>

MagneticStep ==
    << "update_magnetic", "update_magnetic_pml", "update_magnetic_is",
       "update_magnetic_sources" >>

FieldOps(u, pat) ==
    Ops(SelectSeq(log, LAMBDA e : IsOfUpdater(e, u) /\ e.tgt \in {"self", "sub_grid"}
                                   /\ e.op \in {pat[i] : i \in 1..Len(pat)}))

C4_AdvanceIsSources ==
    \A u \in 1..Len(ratios) :
        /\ Cycles(FieldOps(u, ElectricStep), ElectricStep)
        /\ Cycles(FieldOps(u, MagneticStep), MagneticStep)

C4_Witness ==
    /\ JustReturned("hsg_1")
    /\ ratios[log[Len(log)].g] = 5
    /\ Len(FieldOps(log[Len(log)].g, ElectricStep)) >= 5 * Len(ElectricStep)
    /\ Len(FieldOps(log[Len(log)].g, MagneticStep)) >= 5 * Len(MagneticStep)

\* ---- C5 ------------------------------------------------------------------
\* the calls of the hsg_1 loop iteration that has just ended, PML calls left out
IsNotPml(e) == e.op \notin {"update_electric_pml", "update_magnetic_pml"}

Hsg1IterationEnded == sub.phase = "hsg_1" /\ sub.at = "for" /\ sub.m >= 1

LastLoopIteration == Ops(SelectSeq(After(Len(log) - Len(Hsg1Loop)), IsNotPml))

\* C5 (as claimed): each loop iteration of hsg_1 runs record outputs, electric
\* advance, dispersive correction (update_electric_b), magnetic interpolation,
\* IS electric injection, electric sources, magnetic advance, electric
\* interpolation, IS magnetic injection, magnetic sources.
C5_Original ==
    Hsg1IterationEnded =>
        LastLoopIteration =
            << "store_outputs", "update_electric_a", "update_electric_b",
               "interpolate_magnetic_in_time", "update_electric_is",
               "update_electric_sources", "update_magnetic",
               "interpolate_electric_in_time", "update_magnetic_is",
               "update_magnetic_sources" >>

\* C5 (amended): each loop iteration of hsg_1 runs record outputs, electric
\* advance, magnetic interpolation, IS electric injection, electric sources,
\* dispersive correction (update_electric_b), magnetic advance, electric
\* interpolation, IS magnetic injection, magnetic sources: the dispersive
\* correction comes after the IS electric injection and the electric sources
\* of the sub-step and before the magnetic advance.
C5_LoopOrder ==
    Hsg1IterationEnded =>
        LastLoopIteration =
            << "store_outputs", "update_electric_a",
               "interpolate_magnetic_in_time", "update_electric_is",
               "update_electric_sources", "update_electric_b", "update_magnetic",
               "interpolate_electric_in_time", "update_magnetic_is",
               "update_magnetic_sources" >>

C5_Witness == Hsg1IterationEnded /\ sub.m = 2 /\ ratios[sub.u] = 5

\* ---- C6 ------------------------------------------------------------------
\* C6: a call of hsg_1 calls update_electric_os exactly once, as its last
\* call, and never update_magnetic_os; a call of hsg_2 calls
\* update_magnetic_os exactly once, as its last call, and never
\* update_electric_os; for every ratio.
OsOf(ph) == IF ph = "hsg_1" THEN "update_electric_os" ELSE "update_magnetic_os"
OtherOsOf(ph) == IF ph = "hsg_1" THEN "update_magnetic_os" ELSE "update_electric_os"

C6_OsOnceAndLast ==
    LastLvl("call", Len(log)) > 0 =>
        LET ph == log[LastLvl("call", Len(log))].op
            n == Len(CurrentCall)
            returned == LastLvl("ret", Len(log)) > LastLvl("call", Len(log))
        IN  /\ Count(CurrentCall, "sub_grid", OtherOsOf(ph)) = 0
            /\ \A i \in 1..n :
                  CurrentCall[i].op = OsOf(ph) => (i = n /\ (returned \/ sub.at = "ret"))
            /\ returned => (n > 0 /\ CurrentCall[n].op = OsOf(ph)
                                  /\ CurrentCall[n].tgt = "sub_grid")

C6_Witness ==
    /\ JustReturned("hsg_2")
    /\ ratios[log[Len(log)].g] = 4
    /\ Count(CurrentCall, "sub_grid", "update_magnetic_os") = 1
    /\ Count(CurrentCall, "sub_grid", "update_magnetic_is") = 2

\* ---- C10 -----------------------------------------------------------------
\* C10: a call of hsg_1 calls precursors.update_electric exactly once, as its
\* first call, and never precursors.update_magnetic; a call of hsg_2 calls
\* precursors.update_magnetic exactly once, as its first call, and never
\* precursors.update_electric; between a fine-grid advance and the IS
\* injection that follows it there is exactly one precursor computation, of
\* the magnetic precursor before update_electric_is and of the electric
\* precursor before update_magnetic_is.
RefreshOf(ph) == IF ph = "hsg_1" THEN "update_electric" ELSE "update_magnetic"
OtherRefreshOf(ph) == IF ph = "hsg_1" THEN "update_magnetic" ELSE "update_electric"

IsAdvance(e) == e.tgt = "self" /\ e.op \in {"update_electric_a", "update_magnetic"}

RECURSIVE LastAdvance(_, _)
LastAdvance(seq, i) ==
    IF i = 0 THEN 0
    ELSE IF IsAdvance(seq[i]) THEN i
    ELSE LastAdvance(seq, i - 1)

PrecursorFor(isop) ==
    IF isop = "update_electric_is"
      THEN {"interpolate_magnetic_in_time", "calc_exact_magnetic_in_time"}
      ELSE {"interpolate_electric_in_time", "calc_exact_electric_in_time"}

AdvanceFor(isop) ==
    IF isop = "update_electric_is" THEN "update_electric_a" ELSE "update_magnetic"

C10_PrecursorRefreshAndUse ==
    LastLvl("call", Len(log)) > 0 =>
        LET ph == log[LastLvl("call", Len(log))].op
            n == Len(CurrentCall)
        IN  /\ n > 0 => (CurrentCall[1].tgt = "precursors" /\ CurrentCall[1].op = RefreshOf(ph))
            /\ n > 0 => Count(CurrentCall, "precursors", RefreshOf(ph)) = 1
            /\ Count(CurrentCall, "precursors", OtherRefreshOf(ph)) = 0
            /\ (n > 0 /\ CurrentCall[n].op \in {"update_electric_is", "update_magnetic_is"})
                  => LET a == LastAdvance(CurrentCall, n)
                         between == SubSeq(CurrentCall, a + 1, n - 1)
                     IN  /\ a > 0
                         /\ CurrentCall[a].op = AdvanceFor(CurrentCall[n].op)
                         /\ Cardinality({i \in 1..Len(between) :
                                between[i].tgt = "precursors"}) = 1
                         /\ \E i \in 1..Len(between) :
                                /\ between[i].tgt = "precursors"
                                /\ between[i].op \in PrecursorFor(CurrentCall[n].op)

C10_Witness ==
    /\ sub.phase = "hsg_2"
    /\ sub.at = "tail"
    /\ Len(CurrentCall) > 0
    /\ CurrentCall[Len(CurrentCall)].op = "update_magnetic_is"
    /\ CurrentCall[Len(CurrentCall) - 1].op = "calc_exact_electric_in_time"

\* ---- C7 ------------------------------------------------------------------
\* the array attributes the operation made last has changed
Changed == {s \in Slots : arr[s] # pre[s]}

IsPasses == {"update_electric_is", "update_magnetic_is"}
OsPasses == {"update_electric_os", "update_magnetic_os"}

\* C7: an IS pass (update_electric_is, update_magnetic_is, of SubGridHSG or
\* CUDASubGridHSG) changes no array of the main grid (fields, coefficients,
\* ID) and no host precursor array; what it changes are field arrays of the
\* sub-grid itself, Ex, Ey, Ez in the electric pass and Hx, Hy, Hz in the
\* magnetic pass.
C7_IsLeavesMainGrid ==
    lastop[1] \in IsPasses =>
        /\ \A s \in Slots : s[1] = "main" => arr[s] = pre[s]
        /\ \A s \in Slots : (s[1] = "prec" /\ s[3] = "host") => arr[s] = pre[s]
        /\ \A s \in Changed :
              /\ s[1] = "sub"
              /\ s[2] \in (IF lastop[1] = "update_electric_is" THEN EFields ELSE HFields)

C7_Witness ==
    /\ lastop = <<"update_electric_is", "ok">>
    /\ Changed = {"sub"} \X EFields \X {"host"}
    /\ arr[<<"main", "Ex", "host">>] # SetupContent
    /\ arr[<<"prec", "hy_bottom", "host">>] # SetupContent

\* ---- C8 ------------------------------------------------------------------
\* C8: an OS pass (update_electric_os, update_magnetic_os, of SubGridHSG or
\* CUDASubGridHSG) changes arrays of the main grid only: every array
\* attribute of the sub-grid, host or device, is as it was before the pass.
C8_OsLeavesSubGrid ==
    lastop[1] \in OsPasses =>
        /\ \A s \in Slots : s[1] = "sub" => arr[s] = pre[s]
        /\ \A s \in Changed : s[1] = "main"

\* ---- C9 ------------------------------------------------------------------
\* the faces of the OS pass made last: <<kernel call, side>>
Faces == {<<c, side>> : c \in DOMAIN written.calls, side \in {"near", "far"}}

CellsOf(f) == IF f[2] = "near" THEN written.calls[f[1]].near ELSE written.calls[f[1]].far

SameComponent(f1, f2) == written.calls[f1[1]].field = written.calls[f2[1]].field

\* the number of main-grid cells of the OS shell along the axis of a component
AxisExtent(field) ==
    CASE field = "Ex" -> OsBound(geom, "i_u") - OsBound(geom, "i_l")
      [] field = "Ey" -> OsBound(geom, "j_u") - OsBound(geom, "j_l")
      [] field = "Ez" -> OsBound(geom, "k_u") - OsBound(geom, "k_l")

\* C9 (as claimed): in one OS pass, for every main-grid component the cell
\* sets written by different faces are pairwise disjoint.
C9_Original ==
    \A f1 \in Faces : \A f2 \in Faces :
        (f1 # f2 /\ SameComponent(f1, f2)) => CellsOf(f1) \cap CellsOf(f2) = {}

\* C9 (amended): in an update_magnetic_os pass the cell sets written by
\* different faces for one component are pairwise disjoint.  In an
\* update_electric_os pass the near and the far face of one call are disjoint,
\* but the two calls that update the same component (Ex: front/back and
\* bottom/top) both write the cells of the edges their faces share: each of
\* their faces overlaps each face of the other call in exactly the cells of
\* the common edge, and no cell is written by more than two faces.
C9_FacePartition ==
    /\ written.pass = "update_magnetic_os" => C9_Original
    /\ written.pass = "update_electric_os" =>
          /\ \A c \in DOMAIN written.calls :
                written.calls[c].near \cap written.calls[c].far = {}
          /\ \A f1 \in Faces : \A f2 \in Faces :
                (f1[1] # f2[1] /\ SameComponent(f1, f2))
                   => Cardinality(CellsOf(f1) \cap CellsOf(f2))
                         = AxisExtent(written.calls[f1[1]].field)
          /\ \A f \in Faces : \A cell \in CellsOf(f) :
                Cardinality({f2 \in Faces : SameComponent(f, f2) /\ cell \in CellsOf(f2)}) <= 2

C9_Witness ==
    /\ written.pass = "update_electric_os"
    /\ written.variant = "cpu"
    /\ geom.is_os_sep = 2
    /\ geom.i1 - geom.i0 = 2
    /\ \E f1 \in Faces : \E f2 \in Faces :
          /\ f1[1] # f2[1] /\ SameComponent(f1, f2)
          /\ Cardinality(CellsOf(f1) \cap CellsOf(f2)) = 6

\* ---- C11 -----------------------------------------------------------------
IsOps == {"update_electric_is", "update_magnetic_is"}
InterpolateOps == {"interpolate_electric_in_time", "interpolate_magnetic_in_time"}
CalcExactOps == {"calc_exact_electric_in_time", "calc_exact_magnetic_in_time"}

\* the phase of the sub-grid updater call that is running or returned last
CurrentPhase == log[LastLvl("call", Len(log))].op

\* the positions of the calls of the given operations in a sequence of events
Positions(seq, ops) == {i \in 1..Len(seq) : seq[i].op \in ops}

\* the precursor computation of the field an IS injection injects from
FeedField(isop) == IF isop = "update_electric_is" THEN "magnetic" ELSE "electric"
Interpolate(field) == IF field = "magnetic" THEN "interpolate_magnetic_in_time"
                      ELSE "interpolate_electric_in_time"
CalcExact(field) == IF field = "magnetic" THEN "calc_exact_magnetic_in_time"
                    ELSE "calc_exact_electric_in_time"

\* the IS injection a phase ends with: electric in hsg_1, magnetic in hsg_2
FinalIs(ph) == IF ph = "hsg_1" THEN "update_electric_is" ELSE "update_magnetic_is"

\* C11: in every sub-grid updater call each IS injection is fed by the
\* precursor computation made right before it, of the field it injects from.
\* calc_exact_*_in_time is called once per phase (calc_exact_magnetic in hsg_1,
\* calc_exact_electric in hsg_2), after the last interpolate_*_in_time call,
\* and feeds the last IS injection of the phase (update_electric_is in hsg_1,
\* update_magnetic_is in hsg_2); every other IS injection is fed by an
\* interpolate_*_in_time call.
C11_ExactAtFinalSubStep ==
    LastLvl("call", Len(log)) > 0 =>
      LET cc == CurrentCall
          ph == CurrentPhase
          is == Positions(cc, IsOps)
          ex == Positions(cc, CalcExactOps)
          ip == Positions(cc, InterpolateOps)
      IN  /\ \A i \in is :
                /\ i > 1
                /\ cc[i - 1].op \in {Interpolate(FeedField(cc[i].op)), CalcExact(FeedField(cc[i].op))}
          /\ Cardinality(ex) <= 1
          /\ \A x \in ex :
                /\ cc[x].op = CalcExact(FeedField(FinalIs(ph)))
                /\ \A i \in ip : i < x
                /\ \A i \in is : i > x => (i = x + 1 /\ cc[i].op = FinalIs(ph))
          /\ (JustReturned("hsg_1") \/ JustReturned("hsg_2"))
                => /\ Cardinality(ex) = 1
                   /\ \E i \in is : /\ \A j \in is : j <= i
                                    /\ cc[i].op = FinalIs(ph)
                                    /\ cc[i - 1].op \in CalcExactOps
                                    /\ \A j \in is : j < i => cc[j - 1].op \in InterpolateOps

C11_Witness ==
    /\ JustReturned("hsg_2")
    /\ RatioOf(log[Len(log)].g) = 5
    /\ Cardinality(Positions(CurrentCall, InterpolateOps)) = 4
    /\ Cardinality(Positions(CurrentCall, CalcExactOps)) = 1
    /\ Cardinality(Positions(CurrentCall, IsOps)) = 5

\* ---- C12 -----------------------------------------------------------------
\* the interpolate_*_in_time call made last, if the call made last is one
LastIsInterpolate ==
    /\ Len(log) > 0
    /\ log[Len(log)].lvl = "sub"
    /\ log[Len(log)].op \in InterpolateOps
    /\ OddRatio(RatioOf(log[Len(log)].g))

\* C12 (as claimed): every step argument hsg_1 or hsg_2 passes to
\* interpolate_electric_in_time or interpolate_magnetic_in_time lies in
\* [1, (ratio-1)/2], for every odd ratio >= 3.
C12_Original ==
    LastIsInterpolate =>
        /\ log[Len(log)].arg >= 1
        /\ log[Len(log)].arg <= (RatioOf(log[Len(log)].g) - 1) \div 2

\* C12 (amended): for an odd ratio >= 3 and upper_m = (ratio-1)/2, the k-th
\* loop iteration of hsg_1 passes k, in [1, upper_m], to
\* interpolate_electric_in_time and k + upper_m, in [upper_m + 1, ratio - 1],
\* to interpolate_magnetic_in_time; hsg_2 passes k to
\* interpolate_magnetic_in_time and k + upper_m to
\* interpolate_electric_in_time.  Every step argument lies in [1, ratio - 1].
C12_StepRange ==
    LastIsInterpolate =>
        LET e == log[Len(log)]
            r == RatioOf(e.g)
            h == (r - 1) \div 2
            k == Cardinality(Positions(CurrentCall, {e.op}))
            low == (CurrentPhase = "hsg_1") = (e.op = "interpolate_electric_in_time")
        IN  /\ k \in 1..h
            /\ e.arg = IF low THEN k ELSE k + h
            /\ e.arg \in 1..(r - 1)

C12_Witness ==
    /\ LastIsInterpolate
    /\ CurrentPhase = "hsg_1"
    /\ RatioOf(log[Len(log)].g) = 5
    /\ log[Len(log)].op = "interpolate_magnetic_in_time"
    /\ log[Len(log)].arg = 4

\* ---- C13 -----------------------------------------------------------------
\* create_solver has called create_updates on a list with an element whose
\* type is not SubGridHSG
UnrecognisedSubgrid ==
    /\ cfg.subgrid
    /\ \E i \in 1..Len(kinds) : kinds[i].type # "SubGridHSG"
    /\ \E i \in 1..Len(log) : log[i].op = "create_subgrid_updates"

NoTimeStepping ==
    /\ hsg = FALSE
    /\ updaters = <<>>
    /\ \A i \in 1..Len(log) : log[i].lvl = "setup"

\* C13: if an element of G.subgrids is not of type SubGridHSG,
\* create_updates fails with a ConfigurationError: no SubgridUpdates object
\* is returned and no time-stepping operation is executed.
C13_ConfigurationError ==
    UnrecognisedSubgrid => (pc = "ConfigurationError" /\ NoTimeStepping)

\* ---- C14 -----------------------------------------------------------------
\* C14: with neither cpu nor cuda (nor subgrid) selected, create_G and
\* create_solver fail with a ConfigurationError and with no other error.
C14_NoBackendSelected ==
    (~cfg.cpu /\ ~cfg.cuda /\ ~cfg.subgrid /\ pc \notin {"create_G", "create_solver"})
        => pc = "ConfigurationError"

\* ---- C15 -----------------------------------------------------------------
\* C15: a sub-grid with an even ratio is rejected at setup with a
\* ConfigurationError: once create_solver has gone through create_updates on
\* a list holding a sub-grid of even ratio, the run has ended in that error,
\* and no sub-grid updater's hsg_1 or hsg_2 is ever called on a sub-grid of
\* even ratio.
C15_EvenRatioRejected ==
    /\ (/\ cfg.subgrid
        /\ \E i \in 1..Len(ratios) : ratios[i] % 2 = 0
        /\ \E i \in 1..Len(log) : log[i].op = "create_subgrid_updates")
          => pc = "ConfigurationError"
    /\ \A i \in 1..Len(log) :
          log[i].lvl = "call" => RatioOf(log[i].g) % 2 = 1

\* ---- C16 -----------------------------------------------------------------
\* the cells the OS pass made last writes, over all its faces
OsCells == UNION {CellsOf(f) : f \in Faces}

\* a cell of the main-grid field arrays, which have nx + 1, ny + 1, nz + 1
\* entries along x, y, z
InMainGrid(cell) ==
    /\ cell[1] \in 0..geom.nx
    /\ cell[2] \in 0..geom.ny
    /\ cell[3] \in 0..geom.nz

\* C16: whenever update_electric_os or update_magnetic_os runs, every
\* main-grid index it uses lies inside the main grid: all of them are >= 0
\* and within the extent of the main-grid arrays.
C16_OsIndicesInGrid ==
    written.pass # "none" => \A cell \in OsCells : InMainGrid(cell)

\* ---- C18 -----------------------------------------------------------------
\* the operations of the main-grid update kernel
MainKernelOps ==
    {"update_magnetic", "update_magnetic_pml", "update_magnetic_sources",
     "update_electric_a", "update_electric_pml", "update_electric_sources",
     "update_electric_b"}

\* the calls made between the solver call at index s and the end of the log,
\* the last one excluded
Window(s) == SubSeq(log, s + 1, Len(log) - 1)

\* in the sequence w, updater u is called for phase ph once, makes the OS
\* injection os once and returns once, in this order
RanToOs(w, u, ph, os) ==
    LET c == {i \in 1..Len(w) : w[i].lvl = "call" /\ w[i].g = u}
        o == {i \in 1..Len(w) : w[i].lvl = "sub" /\ w[i].g = u /\ w[i].op = os}
        r == {i \in 1..Len(w) : w[i].lvl = "ret" /\ w[i].g = u}
    IN  /\ Cardinality(c) = 1 /\ Cardinality(o) = 1 /\ Cardinality(r) = 1
        /\ \A i \in c : w[i].op = ph
        /\ \A i \in c : \A j \in o : \A k \in r : i < j /\ j < k

\* C18: while an aggregate hsg_1 or hsg_2 call runs, the solver makes no
\* call of the main-grid update kernel (the solver's last call is that hsg
\* call); and when the solver makes the first main-grid call after hsg_1
\* (update_electric_b) or after hsg_2 (update_electric_a), every sub-grid
\* updater has been called, has made its OS injection and has returned.
C18_OwnershipWindows ==
    /\ sub # NoSub
          => /\ Len(log) > 0
             /\ ~(log[Len(log)].lvl = "solver" /\ log[Len(log)].op \in MainKernelOps)
             /\ log[LastLvl("solver", Len(log))].op = sub.phase
    /\ (/\ hsg /\ Len(log) > 0
        /\ log[Len(log)].lvl = "solver"
        /\ log[Len(log)].op \in {"update_electric_a", "update_electric_b"})
          => LET ph == IF log[Len(log)].op = "update_electric_b" THEN "hsg_1" ELSE "hsg_2"
                 os == IF ph = "hsg_1" THEN "update_electric_os" ELSE "update_magnetic_os"
                 s == LastLvl("solver", Len(log) - 1)
             IN  /\ sub = NoSub
                 /\ s > 0
                 /\ log[s].op = ph
                 /\ \A u \in 1..Len(updaters) : RanToOs(Window(s), u, ph, os)

C18_Witness ==
    /\ hsg
    /\ Len(updaters) = 2
    /\ Len(log) > 0
    /\ log[Len(log)].lvl = "solver"
    /\ log[Len(log)].op = "update_electric_b"
    /\ RanToOs(Window(LastLvl("solver", Len(log) - 1)), 2, "hsg_1", "update_electric_os")

\* ---- C19 -----------------------------------------------------------------
IsCallEv(e) == e.lvl = "call"

\* C19: after create_updates the list of updaters has one SubgridUpdater per
\* element of G.subgrids, in the same order, the i-th bound to the i-th
\* sub-grid and to a precursor object of its own made for that sub-grid
\* (PrecursorNodesFiltered if sg.filter, else PrecursorNodes); and when an
\* aggregate hsg_1 (hsg_2) call has returned, it has called hsg_1 (hsg_2) on
\* every updater once, in list order, and hsg_2 (hsg_1) on none.
C19_OneUpdaterPerSubgrid ==
    /\ hsg
          => /\ Len(updaters) = Len(kinds)
             /\ \A i \in 1..Len(updaters) :
                   /\ updaters[i].grid = i
                   /\ updaters[i].precursors.sub_grid = i
                   /\ updaters[i].precursors.cls
                         = IF kinds[i].filter THEN "PrecursorNodesFiltered" ELSE "PrecursorNodes"
             /\ \A i \in 1..Len(updaters) : \A j \in 1..Len(updaters) :
                   i # j => updaters[i].precursors # updaters[j].precursors
    /\ (/\ hsg /\ Len(log) > 0
        /\ log[Len(log)].lvl = "solver"
        /\ log[Len(log)].op \in {"update_electric_a", "update_electric_b"})
          => LET ph == IF log[Len(log)].op = "update_electric_b" THEN "hsg_1" ELSE "hsg_2"
                 calls == SelectSeq(Window(LastLvl("solver", Len(log) - 1)), IsCallEv)
             IN  /\ Len(calls) = Len(kinds)
                 /\ \A i \in 1..Len(calls) : calls[i].g = i /\ calls[i].op = ph

C19_Witness ==
    /\ hsg
    /\ Len(kinds) = 2
    /\ kinds[1].filter
    /\ updaters[1].precursors = PrecursorsOf("PrecursorNodesFiltered", 1)
    /\ updaters[2].precursors = PrecursorsOf("PrecursorNodes", 2)
    /\ Len(log) > 0
    /\ log[Len(log)].lvl = "solver"
    /\ log[Len(log)].op = "update_electric_a"
    /\ Len(SelectSeq(Window(LastLvl("solver", Len(log) - 1)), IsCallEv)) = 2

\* ---- C20 -----------------------------------------------------------------
\* the call made last is the precursor snapshot of a sub-grid updater
LastIsSnapshot ==
    /\ Len(log) > 0
    /\ log[Len(log)].lvl = "sub"
    /\ log[Len(log)].tgt = "precursors"
    /\ log[Len(log)].op \in {"update_electric", "update_magnetic"}

\* the number of OS injections updater v has made in the sequence w
OsCount(w, v) ==
    Cardinality({i \in 1..Len(w) :
        /\ w[i].lvl = "sub" /\ w[i].g = v
        /\ w[i].op \in {"update_electric_os", "update_magnetic_os"}})

\* C20 (as claimed): when an updater takes its precursor snapshot, no updater
\* has made an OS injection in the running aggregate call yet, so that every
\* snapshot reads the main grid as it was before the aggregate call.
C20_Original ==
    LastIsSnapshot =>
        \A v \in 1..Len(updaters) :
            OsCount(Window(LastLvl("solver", Len(log))), v) = 0

\* C20 (amended): the updaters of an aggregate call run one after the other
\* in list order, each taking its snapshot as the first call of its own
\* hsg_1 (hsg_2).  The first updater's snapshot is taken before any OS
\* injection of the aggregate call; the snapshot of the u-th updater is taken
\* when each of the updaters 1..u-1 has made its OS injection of that call
\* and none of the others has.
C20_SequentialSnapshots ==
    LastIsSnapshot =>
        LET e == log[Len(log)]
            s == LastLvl("solver", Len(log))
            w == Window(s)
        IN  /\ s > 0
            /\ log[s].op \in {"hsg_1", "hsg_2"}
            /\ e.op = IF log[s].op = "hsg_1" THEN "update_electric" ELSE "update_magnetic"
            /\ Len(w) > 0
            /\ w[Len(w)] = Ev("call", e.g, "sg_updater", log[s].op, NoArg)
            /\ \A v \in 1..Len(updaters) :
                  OsCount(w, v) = IF v < e.g THEN 1 ELSE 0
            /\ \A i \in 1..Len(w) :
                  (w[i].lvl = "sub" /\ w[i].op = "update_magnetic_os")
                      => log[s].op = "hsg_2"
            /\ \A i \in 1..Len(w) :
                  (w[i].lvl = "sub" /\ w[i].op = "update_electric_os")
                      => log[s].op = "hsg_1"

C20_Witness ==
    /\ LastIsSnapshot
    /\ log[Len(log)].g = 2
    /\ log[Len(log)].op = "update_electric"
    /\ OsCount(Window(LastLvl("solver", Len(log))), 1) = 1

\* ---- C21 -----------------------------------------------------------------
\* the field attributes Ex .. Hz of the main grid and of the sub-grid
FieldAttributes == {"main", "sub"} \X (EFields \cup HFields) \X {"host"}

\* C21: after any sequence of IS and OS passes (SubGridHSG or CUDASubGridHSG)
\* and of field updates, every field attribute Ex .. Hz of the sub-grid and of
\* the main grid is still bound to the array object allocated at model
\* building.
C21_SameArrayObjects == \A s \in FieldAttributes : ref[s] = BuiltAtSetup

\* ---- C22 -----------------------------------------------------------------
\* C22: ratio, is_os_sep and the bounding box i0, j0, k0, i1, j1, k1 of a
\* sub-grid are never changed by an IS or an OS pass, and every
\* update_electric_os and update_magnetic_os call computes the same OS bounds
\* i_l .. k_u: those of the first OS pass of the run.
C22_ConfigurationImmutable ==
    [][/\ geom' = geom
       /\ written'.pass \in OsPasses =>
             /\ written'.bounds = OsBounds(geom)
             /\ written'.first # NoBounds
             /\ written'.bounds = written'.first
             /\ written.first # NoBounds => written'.first = written.first]_vars

C22_Witness ==
    /\ written.pass = "update_magnetic_os"
    /\ written.again
    /\ written.bounds = written.first
    /\ written.bounds.i_l = geom.i0 - geom.is_os_sep
    /\ geom.ratio = 3
    /\ geom.is_os_sep = 2

\* ---- C23 -----------------------------------------------------------------
\* the axis of a field component, by the name of the array attribute
AxisOf(name) ==
    CASE name \in {"Ex", "Hx", "ex_bottom", "ex_top", "ex_front", "ex_back",
                   "hx_bottom", "hx_top", "hx_front", "hx_back"} -> "x"
      [] name \in {"Ey", "Hy", "ey_bottom", "ey_top", "ey_left", "ey_right",
                   "hy_bottom", "hy_top", "hy_left", "hy_right"} -> "y"
      [] name \in {"Ez", "Hz", "ez_front", "ez_back", "ez_left", "ez_right",
                   "hz_front", "hz_back", "hz_left", "hz_right"} -> "z"

\* the axis normal to a face pair: 1 bottom/top, 2 left/right, 3 front/back
NormalOf(face) == CASE face = 1 -> "z" [] face = 2 -> "x" [] face = 3 -> "y"

\* the incident field array(s) of a kernel call made last
IncidentOf(call) ==
    IF lastop[1] \in IsPasses THEN {call.inc_l[2], call.inc_u[2]} ELSE {call.inc[2]}

\* the calls of the pass made last that work on face pair f
CallsOn(f) == {c \in 1..Len(issued) : issued[c].face = f}

\* C23: each IS pass and each OS pass issues exactly two injection calls per
\* face pair; in every call the updated component and the incident component
\* are the two distinct components tangential to the face normal, and the two
\* calls of one face pair update different components.
C23_TwoTangentialPerFace ==
    lastop[1] \in IsPasses \cup OsPasses =>
        /\ \A f \in 1..3 : Cardinality(CallsOn(f)) = 2
        /\ Len(issued) = 6
        /\ \A c \in 1..Len(issued) :
              /\ AxisOf(issued[c].field[2]) # NormalOf(issued[c].face)
              /\ \A inc \in IncidentOf(issued[c]) :
                    /\ AxisOf(inc) # NormalOf(issued[c].face)
                    /\ AxisOf(inc) # AxisOf(issued[c].field[2])
        /\ \A f \in 1..3 : \A c1 \in CallsOn(f) : \A c2 \in CallsOn(f) :
              c1 # c2 => AxisOf(issued[c1].field[2]) # AxisOf(issued[c2].field[2])

\* ---- C24 -----------------------------------------------------------------
\* the signs a kernel call of the pass op is given for the near (lower) and
\* the far (upper) face
SignsOf(op, call) ==
    IF op \in IsPasses THEN <<call.sign_l, call.sign_u>> ELSE <<call.sign_n, call.sign_f>>

\* the field array a call updates and the field array(s) it reads as incident
UpdatedIn(call) == call.field[2]
IncidentIn(op, call) == IF op \in IsPasses THEN call.inc_l[2] ELSE call.inc[2]

\* the axis of the electric component of a call: the updated one in an
\* electric pass, the incident one in a magnetic pass
ElectricAxis(op, call) ==
    IF op \in {"update_electric_is", "update_electric_os"}
      THEN AxisOf(UpdatedIn(call)) ELSE AxisOf(IncidentIn(op, call))

\* the pass made last and the one before it are the electric and the
\* magnetic pass of the same surface, and both have issued their calls
CounterpartPasses ==
    /\ {lastop[1], previous.op} \in {IsPasses, OsPasses}
    /\ Len(issued) > 0 /\ Len(previous.calls) > 0

\* in the pass made last, the two calls of each face pair carry the sign
\* pairs (+1, -1) and (-1, +1)
SignsAlternate ==
    /\ \A c \in 1..Len(issued) :
          SignsOf(lastop[1], issued[c]) \in {<<1, -1>>, <<-1, 1>>}
    /\ \A f \in 1..3 : \A c1 \in CallsOn(f) : \A c2 \in CallsOn(f) :
          c1 # c2 => SignsOf(lastop[1], issued[c1]) # SignsOf(lastop[1], issued[c2])

\* C24 (as claimed): the two calls of one face pair carry the sign pairs
\* (+1, -1) and (-1, +1), and the sign pair of a (face pair, updated
\* component) is the same in the electric and in the magnetic pass: the call
\* updating the x (y, z) component on a face pair has the same signs in both.
C24_Original ==
    /\ lastop[1] \in IsPasses \cup OsPasses => SignsAlternate
    /\ CounterpartPasses =>
          \A c \in 1..Len(issued) : \A d \in 1..Len(previous.calls) :
              (/\ issued[c].face = previous.calls[d].face
               /\ AxisOf(UpdatedIn(issued[c])) = AxisOf(UpdatedIn(previous.calls[d])))
                 => SignsOf(lastop[1], issued[c]) = SignsOf(previous.op, previous.calls[d])

\* C24 (amended): the two calls of one face pair carry the sign pairs
\* (+1, -1) and (-1, +1), the near sign being the negation of the far sign;
\* between the electric and the magnetic pass of one surface the sign pair
\* is the same for the calls that couple the same pair of components, the
\* updated component of the one being the incident component of the other
\* (Ex updated from Hz in the electric pass, Hz updated from Ex in the
\* magnetic pass).  The calls that update the same axis carry opposite pairs.
C24_SignAlternation ==
    /\ lastop[1] \in IsPasses \cup OsPasses => SignsAlternate
    /\ CounterpartPasses =>
          \A c \in 1..Len(issued) : \A d \in 1..Len(previous.calls) :
              issued[c].face = previous.calls[d].face =>
                 /\ ElectricAxis(lastop[1], issued[c]) = ElectricAxis(previous.op, previous.calls[d])
                       => SignsOf(lastop[1], issued[c]) = SignsOf(previous.op, previous.calls[d])
                 /\ AxisOf(UpdatedIn(issued[c])) = AxisOf(UpdatedIn(previous.calls[d]))
                       => SignsOf(lastop[1], issued[c]) # SignsOf(previous.op, previous.calls[d])

C24_Witness ==
    /\ lastop = <<"update_electric_is", "ok">>
    /\ previous.op = "update_magnetic_is"
    /\ Len(previous.calls) = 6
    /\ SignsOf(lastop[1], issued[5]) = <<-1, 1>>
    /\ SignsOf(previous.op, previous.calls[5]) = <<-1, 1>>
    /\ UpdatedIn(issued[5]) = "Ex"
    /\ IncidentIn(previous.op, previous.calls[5]) = "ex_front"

\* ---- C25 -----------------------------------------------------------------
\* in the sequence w, updater u has run phase ph in full: called once,
\* 2 * upper_m + 1 fine advances, then the OS injection os as its last call,
\* returned once
RanInFull(w, u, ph, os) ==
    LET mine == SelectSeq(w, LAMBDA e : e.g = u /\ e.op = ph /\ e.lvl \in {"call", "ret"})
        c == CHOOSE i \in 1..Len(w) : w[i] = Ev("call", u, "sg_updater", ph, NoArg)
        r == CHOOSE i \in 1..Len(w) : w[i] = Ev("ret", u, "sg_updater", ph, NoArg)
        body == SubSeq(w, c + 1, r - 1)
    IN  /\ Len(mine) = 2 /\ mine[1].lvl = "call" /\ mine[2].lvl = "ret"
        /\ \A i \in 1..Len(body) : IsOfUpdater(body[i], u)
        /\ Count(body, "self", "update_electric_a") + Count(body, "self", "update_magnetic")
              = 2 * UpperM(RatioOf(u)) + 1
        /\ Len(body) > 0 /\ body[Len(body)].op = os
        /\ Count(body, "sub_grid", os) = 1

\* index of the last call of store_outputs by the solver at or before i
RECURSIVE LastStoreOutputs(_)
LastStoreOutputs(i) ==
    IF i = 0 THEN 0
    ELSE IF log[i] = Ev("solver", 0, "updates", "store_outputs", NoArg) THEN i
    ELSE LastStoreOutputs(i - 1)

\* iteration k has just made its update_electric_b, every updater having run
\* hsg_2 and then hsg_1 in full since the iteration began
StepDone(k) ==
    /\ iteration = k
    /\ Len(log) > 0
    /\ log[Len(log)] = Ev("solver", 0, "updates", "update_electric_b", NoArg)
    /\ LET w == SubSeq(log, LastStoreOutputs(Len(log)), Len(log))
       IN  \A u \in 1..Len(updaters) :
              /\ RanInFull(w, u, "hsg_2", "update_magnetic_os")
              /\ RanInFull(w, u, "hsg_1", "update_electric_os")

\* the run has made finalise, calculate_tsolve and cleanup, in this order
Finished ==
    /\ Len(log) >= 3
    /\ log[Len(log) - 2].op = "finalise"
    /\ log[Len(log) - 1].op = "calculate_tsolve"
    /\ log[Len(log)].op = "cleanup"

\* C25: with sub-gridding enabled, for every iterator length and every
\* ratio, Solver.solve terminates: every iteration that starts reaches its
\* update_electric_b with hsg_2 and hsg_1 of every updater run in full, and
\* finalise, calculate_tsolve and cleanup are eventually made.
C25_StepCompletes ==
    /\ (pc = "time_start") ~> Finished
    /\ \A k \in 0..(MaxIter - 1) :
          (pc = "body" /\ stmt = 1 /\ iteration = k) ~> StepDone(k)

C25_Witness ==
    /\ StepDone(MaxIter - 1)
    /\ Len(updaters) = 2
    /\ ratios[1] = 5
    /\ ratios[2] = 2

\* ---- C26 -----------------------------------------------------------------
\* store_outputs_gpu taken for store_outputs, update_magnetic_gpu for
\* update_magnetic
Identified(call) ==
    CASE call.tgt = "self" /\ call.op = "store_outputs_gpu" -> [call EXCEPT !.op = "store_outputs"]
      [] call.tgt = "self" /\ call.op = "update_magnetic_gpu" -> [call EXCEPT !.op = "update_magnetic"]
      [] OTHER -> call

IdentifiedTrace(t) == [i \in 1..Len(t) |-> Identified(t[i])]

\* the shorter of two sequences is the beginning of the longer
Agree(t1, t2) ==
    \A i \in 1..(IF Len(t1) < Len(t2) THEN Len(t1) ELSE Len(t2)) : t1[i] = t2[i]

\* the method has returned or has ended with an exception
Ended(run) == run.at \in {"done", "TypeError"}

\* C26: for every ratio, hsg1_gpu (hsg2_gpu) of CUDASubgridUpdater makes the
\* same calls with the same precursor step arguments, in the same order, as
\* hsg_1 (hsg_2) of SubgridUpdater, store_outputs_gpu being taken for
\* store_outputs and update_magnetic_gpu for update_magnetic: as far as both
\* have got the calls agree, and once both methods have ended the two
\* sequences are equal.  The SubgridUpdater runs on a SubGridHSG, the
\* CUDASubgridUpdater on a CUDASubGridHSG.
C26_BackendAgnostic ==
    (backends.cpu.grid = "SubGridHSG" /\ backends.cuda.grid = "CUDASubGridHSG")
       => /\ Agree(backends.cpu.trace, IdentifiedTrace(backends.cuda.trace))
          /\ (Ended(backends.cpu) /\ Ended(backends.cuda))
                => backends.cpu.trace = IdentifiedTrace(backends.cuda.trace)

\* ---- C28 -----------------------------------------------------------------
\* the calls (target, name, argument) updater u has made in its latest hsg
\* call of phase ph
CallsOf(u, ph) ==
    LET Own(e) == e.lvl = "sub" /\ e.g = u
        w == SelectSeq(After(LastCallOf(u, ph, Len(log))), Own)
    IN  [i \in 1..Len(w) |-> [tgt |-> w[i].tgt, op |-> w[i].op, arg |-> w[i].arg]]

\* the call made last is the return of an hsg call of the updater v
ReturnedLast(v) ==
    /\ Len(log) > 0
    /\ log[Len(log)].lvl = "ret"
    /\ log[Len(log)].g = v

\* C28: create_updates gives a SubGridHSG whose filter is truthy a
\* PrecursorNodesFiltered and one whose filter is falsy a PrecursorNodes,
\* whatever its ratio and its place in G.subgrids; and when an updater with a
\* PrecursorNodes has run hsg_1 (hsg_2) after an updater with a
\* PrecursorNodesFiltered on a sub-grid of the same ratio, the two have made
\* the same calls with the same arguments in the same order.
C28_VariantByFilterOnly ==
    /\ hsg
          => \A i \in 1..Len(updaters) :
                /\ kinds[i].type = "SubGridHSG"
                /\ kinds[i].filter <=> updaters[i].precursors.cls = "PrecursorNodesFiltered"
                /\ ~kinds[i].filter <=> updaters[i].precursors.cls = "PrecursorNodes"
    /\ \A v \in 2..Len(updaters) : \A u \in 1..(v - 1) :
          (/\ ReturnedLast(v)
           /\ ratios[u] = ratios[v]
           /\ updaters[u].precursors.cls # updaters[v].precursors.cls)
             => CallsOf(u, log[Len(log)].op) = CallsOf(v, log[Len(log)].op)

C28_Witness ==
    /\ hsg
    /\ Len(updaters) = 2
    /\ ratios = <<3, 3>>
    /\ updaters[1].precursors.cls = "PrecursorNodesFiltered"
    /\ updaters[2].precursors.cls = "PrecursorNodes"
    /\ ReturnedLast(2)
    /\ log[Len(log)].op = "hsg_1"
    /\ Len(CallsOf(2, "hsg_1")) = 21
    /\ CallsOf(1, "hsg_1")[5] = [tgt |-> "precursors", op |-> "interpolate_magnetic_in_time", arg |-> 2]

\* ---- C29 -----------------------------------------------------------------
\* the call at index i is a fine-grid field advance of the updater u
IsAdvanceOf(u, i) == log[i].lvl = "sub" /\ log[i].g = u /\ IsAdvance(log[i])

\* index of the last fine-grid field advance of updater u at or before i, 0
\* if there is none
LastAdvanceOf(u, i) ==
    LET at == {j \in 1..i : IsAdvanceOf(u, j)}
    IN  IF at = {} THEN 0 ELSE CHOOSE j \in at : \A k \in at : k <= j

\* the fine-grid field advances of updater u so far, in order
AdvancesOf(u) ==
    LET Own(e) == e.lvl = "sub" /\ e.g = u /\ IsAdvance(e)
    IN  Ops(SelectSeq(log, Own))

\* C29: within one run of Solver.solve with sub-gridding, whenever the
\* updater of a sub-grid makes a fine-grid field advance (update_magnetic or
\* update_electric_a), its previous advance, in the same hsg call, in the
\* other phase or in the iteration before, was of the other field, and its
\* first advance is magnetic.
C29_LeapfrogAlternation ==
    \A u \in 1..Len(updaters) :
        (Len(log) > 0 /\ IsAdvanceOf(u, Len(log)))
            => LET p == LastAdvanceOf(u, Len(log) - 1) IN
                 IF p = 0 THEN log[Len(log)].op = "update_magnetic"
                 ELSE log[p].op # log[Len(log)].op

C29_Witness ==
    /\ Len(updaters) = 2
    /\ ratios[2] = 3
    /\ iteration = 1
    /\ IsAdvanceOf(2, Len(log))
    /\ AdvancesOf(2) = << "update_magnetic", "update_electric_a", "update_magnetic",
                          "update_electric_a", "update_magnetic", "update_electric_a",
                          "update_magnetic", "update_electric_a", "update_magnetic" >>

\* ---- C30 -----------------------------------------------------------------
RefreshOps == {"update_electric", "update_magnetic"}

FieldOf(refresh) == IF refresh = "update_magnetic" THEN "magnetic" ELSE "electric"

\* the call at index i is the refresh named op of the precursor of updater u
IsRefreshOf(u, op, i) ==
    /\ log[i].lvl = "sub" /\ log[i].g = u
    /\ log[i].tgt = "precursors" /\ log[i].op = op

\* index of the last refresh named op of the precursor of updater u at or
\* before i, 0 if there is none
LastRefreshOf(u, op, i) ==
    LET at == {j \in 1..i : IsRefreshOf(u, op, j)}
    IN  IF at = {} THEN 0 ELSE CHOOSE j \in at : \A k \in at : k <= j

\* the values of one field that updater u has asked of its precursor after
\* the call at index p
RequestsAfter(u, field, p) ==
    LET Own(e) == /\ e.lvl = "sub" /\ e.g = u /\ e.tgt = "precursors"
                  /\ e.op \in {Interpolate(field), CalcExact(field)}
    IN  SelectSeq(After(p), Own)

\* C30: for a sub-grid of odd ratio >= 3, when the updater refreshes a
\* precursor buffer (update_magnetic, update_electric) that it has refreshed
\* before, the values of that field it has asked for since the previous
\* refresh are the interpolations at the steps 1, 2, ..., ratio - 1, in this
\* order and once each, followed by one calc_exact and nothing else.
C30_StepsBetweenRefreshes ==
    \A u \in 1..Len(updaters) : \A op \in RefreshOps :
        (/\ Len(log) > 0
         /\ IsRefreshOf(u, op, Len(log))
         /\ LastRefreshOf(u, op, Len(log) - 1) > 0
         /\ RatioOf(u) >= 3 /\ RatioOf(u) % 2 = 1)
            => LET w == RequestsAfter(u, FieldOf(op), LastRefreshOf(u, op, Len(log) - 1))
               IN  /\ Len(w) = RatioOf(u)
                   /\ \A i \in 1..(RatioOf(u) - 1) :
                         w[i].op = Interpolate(FieldOf(op)) /\ w[i].arg = i
                   /\ w[RatioOf(u)].op = CalcExact(FieldOf(op))

C30_Witness ==
    /\ Len(updaters) = 2
    /\ ratios = <<5, 3>>
    /\ Len(log) > 0
    /\ IsRefreshOf(1, "update_electric", Len(log))
    /\ LastRefreshOf(1, "update_electric", Len(log) - 1) > 0
    /\ Len(RequestsAfter(1, "electric", LastRefreshOf(1, "update_electric", Len(log) - 1))) = 5
    /\ RequestsAfter(1, "electric", LastRefreshOf(1, "update_electric", Len(log) - 1))[3].arg = 3

\* ---- C31 -----------------------------------------------------------------
\* the call made last asks the precursor of updater u for a value of field f
LastIsRequest(u, f) ==
    /\ Len(log) > 0
    /\ log[Len(log)].lvl = "sub" /\ log[Len(log)].g = u
    /\ log[Len(log)].tgt = "precursors"
    /\ log[Len(log)].op \in {Interpolate(f), CalcExact(f)}

RefreshFor(f) == IF f = "magnetic" THEN "update_magnetic" ELSE "update_electric"

\* the precursor buffer of field f of updater u has been refreshed before the
\* call made last
RefreshedBefore(u, f) == LastRefreshOf(u, RefreshFor(f), Len(log) - 1) > 0

\* C31 (as claimed): every interpolate_*_in_time / calc_exact_*_in_time call
\* is preceded by a refresh (update_electric, update_magnetic) of the same
\* field's precursor buffer of the same updater, including in the first
\* iteration.
C31_Original ==
    \A u \in 1..Len(updaters) : \A f \in Fields :
        LastIsRequest(u, f) => RefreshedBefore(u, f)

\* C31 (amended): every interpolate_magnetic_in_time /
\* calc_exact_magnetic_in_time call is preceded by a precursors.update_magnetic
\* call of the same updater; every interpolate_electric_in_time /
\* calc_exact_electric_in_time call is preceded by a precursors.update_electric
\* call of the same updater, except those of hsg_2 in the first iteration,
\* which are made before the electric buffer has ever been refreshed.
C31_RefreshBeforeUse ==
    \A u \in 1..Len(updaters) :
        /\ LastIsRequest(u, "magnetic") => RefreshedBefore(u, "magnetic")
        /\ LastIsRequest(u, "electric")
              => (RefreshedBefore(u, "electric") <=> ~(iteration = 0 /\ sub.phase = "hsg_2"))

C31_Witness ==
    /\ Len(updaters) = 2
    /\ ratios[2] = 3
    /\ iteration = 1
    /\ sub.phase = "hsg_2"
    /\ LastIsRequest(2, "electric")
    /\ log[Len(log)].op = "interpolate_electric_in_time"
    /\ RefreshedBefore(2, "electric")
    /\ RefreshedBefore(2, "magnetic")

\* ---- C32 -----------------------------------------------------------------
\* the call at index i is the call op of updater u on itself
IsSelfCall(u, op, i) ==
    /\ i \in 1..Len(log)
    /\ log[i].lvl = "sub" /\ log[i].g = u
    /\ log[i].tgt = "self" /\ log[i].op = op

\* index of the solver's store_outputs call that opened the running iteration
IterationStart ==
    LET at == {j \in 1..Len(log) : log[j].lvl = "solver" /\ log[j].op = "store_outputs"}
    IN  IF at = {} THEN 0 ELSE CHOOSE j \in at : \A k \in at : k <= j

\* the store_outputs calls updater u has made in the running iteration
StoredInIteration(u) == {j \in (IterationStart + 1)..Len(log) : IsSelfCall(u, "store_outputs", j)}

\* the solver has just made the last field update of an iteration
CoarseStepDone ==
    /\ hsg /\ Len(log) > 0
    /\ log[Len(log)].lvl = "solver"
    /\ log[Len(log)].op = "update_electric_b"

\* C32: every update_electric_a of a sub-grid updater comes right after a
\* store_outputs of the same updater, every store_outputs of a sub-grid
\* updater is followed at once by its update_electric_a, and when a coarse
\* step is done the updater of a sub-grid of odd ratio >= 3 has stored its
\* outputs ratio times in it.
C32_OutputsPerElectricStep ==
    \A u \in 1..Len(updaters) :
        /\ IsSelfCall(u, "update_electric_a", Len(log))
              => IsSelfCall(u, "store_outputs", Len(log) - 1)
        /\ IsSelfCall(u, "store_outputs", Len(log) - 1)
              => IsSelfCall(u, "update_electric_a", Len(log))
        /\ (CoarseStepDone /\ OddRatio(RatioOf(u)))
              => Cardinality(StoredInIteration(u)) = RatioOf(u)

C32_Witness ==
    /\ CoarseStepDone
    /\ iteration = 1
    /\ Len(updaters) = 2
    /\ ratios = <<5, 3>>
    /\ Cardinality(StoredInIteration(1)) = 5
    /\ Cardinality(StoredInIteration(2)) = 3
    /\ \A j \in StoredInIteration(1) : IsSelfCall(1, "update_electric_a", j + 1)

\* ---- C33 -----------------------------------------------------------------
\* the kernel calls SubGridHSG issues in the pass op
CpuCallsOf(op) ==
    CASE op = "update_magnetic_is" -> UpdateMagneticIsCalls
      [] op = "update_electric_is" -> UpdateElectricIsCalls
      [] op = "update_electric_os" -> UpdateElectricOsCalls
      [] op = "update_magnetic_os" -> UpdateMagneticOsCalls

\* a kernel call with its arrays named by grid and component, wherever they
\* are held (host or device)
Unplaced(c) ==
    [a \in DOMAIN c |->
        IF a \in {"coeffs", "id", "field", "inc", "inc_l", "inc_u"}
          THEN <<c[a][1], c[a][2]>> ELSE c[a]]

\* C33: when a CUDASubGridHSG has made one of the passes update_magnetic_is,
\* update_electric_is, update_electric_os, update_magnetic_os, it has issued
\* as many kernel calls as SubGridHSG issues in that pass, and its k-th call
\* has the face, co, signs, mid or offset, extents, index bounds, ID-lookup
\* component, updated field and incident field of the k-th call of SubGridHSG.
C33_SameInjections ==
    (variant = "cuda" /\ lastop[1] \in IsPasses \cup OsPasses)
        => /\ Len(issued) = Len(CpuCallsOf(lastop[1]))
           /\ \A k \in 1..Len(issued) :
                 Unplaced(issued[k]) = Unplaced(CpuCallsOf(lastop[1])[k])

\* ---- C34 -----------------------------------------------------------------
ElectricPasses == {"update_electric_is", "update_electric_os"}

\* C34: when an IS or OS pass of either variant has been entered, every
\* kernel call the pass is written to make hands in, as the array to update,
\* the array of the component its ID lookup names; in an electric pass that
\* array is an electric field and the coefficients are updatecoeffsE, in a
\* magnetic pass it is a magnetic field and the coefficients are
\* updatecoeffsH.
C34_DestinationMatchesLookup ==
    lastop[1] \in IsPasses \cup OsPasses
        => \A k \in 1..Len(CallSites(variant, lastop[1])) :
              LET c == CallSites(variant, lastop[1])[k] IN
                /\ c.field[2] = c.lookup
                /\ IF lastop[1] \in ElectricPasses
                     THEN c.field[2] \in EFields /\ c.coeffs[2] = "updatecoeffsE"
                     ELSE c.field[2] \in HFields /\ c.coeffs[2] = "updatecoeffsH"

\* ---- C35 -----------------------------------------------------------------
\* Solver.solve has been called: its first statement has run
SolveEntered == \E i \in 1..Len(log) : log[i].lvl = "solver" /\ log[i].op = "time_start"

\* C35: Solver.solve ends by returning (tsolve, memsolve), never by an
\* error, whatever the length of the iterator (zero included); the memsolve
\* it returns is None when the cuda flag is not set, and otherwise the value
\* calculate_memsolve gave for the last iteration.
C35_ReturnsPair ==
    /\ SolveEntered => pc # "UnboundLocalError"
    /\ pc = "done"
          => memsolve = IF cfg.cuda THEN [kind |-> "value", of |-> iteration] ELSE PyNone

\* ---- C36 -----------------------------------------------------------------
\* how many times Solver.solve has called op on self.updates
SolverCount(op) == Cardinality({i \in 1..Len(SolverEvents) : SolverEvents[i].op = op})

\* Solver.solve has run its last statement but the return
SolveClosed == pc \in {"return", "done"} \/ (pc = "UnboundLocalError" /\ SolveEntered)

\* index of the last call of Solver.solve on self.updates before the call
\* made last, 0 if there is none
PreviousSolverCall ==
    LET at == {j \in 1..(Len(log) - 1) : log[j].lvl = "solver"}
    IN  IF at = {} THEN 0 ELSE CHOOSE j \in at : \A k \in at : k <= j

\* C36: in a run of Solver.solve, time_start is the first call and is made
\* only then; finalise is called right after the last iteration (after its
\* update_electric_b and, on the CUDA backend, calculate_memsolve; right after
\* time_start if there is no iteration), calculate_tsolve right after
\* finalise and cleanup right after calculate_tsolve; nothing is called after
\* cleanup, so none of the four is called inside the loop and each is called
\* once; and solve does not reach its return before cleanup.
C36_Lifecycle ==
    /\ (Len(log) > 0 /\ log[Len(log)].lvl = "solver")
          => LET op == log[Len(log)].op
                 p == PreviousSolverCall
             IN  /\ op = "time_start" <=> p = 0
                 /\ p > 0 => /\ log[p].op # "cleanup"
                             /\ op = "finalise" =>
                                   log[p].op = IF iteration = -1 THEN "time_start"
                                               ELSE IF cfg.cuda THEN "calculate_memsolve"
                                               ELSE "update_electric_b"
                             /\ op = "calculate_tsolve" <=> log[p].op = "finalise"
                             /\ op = "cleanup" <=> log[p].op = "calculate_tsolve"
    /\ SolveClosed
          => /\ Len(log) > 0
             /\ log[Len(log)].lvl = "solver"
             /\ log[Len(log)].op = "cleanup"

C36_Witness ==
    /\ pc = "done"
    /\ hsg
    /\ iteration = 1
    /\ SolverCount("update_electric_b") = 2
    /\ SolverCount("time_start") = 1
    /\ SolverEvents[Len(SolverEvents)].op = "cleanup"
    /\ SolverEvents[Len(SolverEvents) - 3].op = "update_electric_b"

\* ---- C37 -----------------------------------------------------------------
UpdatesClasses == {"create_subgrid_updates", "CPUUpdates", "CUDAUpdates"}

\* create_solver has returned a solver
SolverReturned ==
    /\ Len(log) > 0
    /\ log[1].lvl = "setup" /\ log[1].op \in UpdatesClasses
    /\ pc # "ValueError"

\* what the solver's updates object was made by
BuiltOn == log[1].op

\* create_solver has configured the dispersive updates
DispersiveConfigured ==
    /\ Len(log) >= 3
    /\ log[2].lvl = "setup" /\ log[2].op = "adapt_dispersive_config"
    /\ log[3].lvl = "setup" /\ log[3].op = "set_dispersive_updates"

\* C37: a solver returned by create_solver is, with the subgrid flag set,
\* a Solver with hsg = True on create_subgrid_updates(G), whatever the cpu and
\* cuda flags, with the dispersive updates configured exactly when cuda is
\* not set; else with the cpu flag set a Solver with hsg = False on
\* CPUUpdates with the dispersive updates configured; else with the cuda flag
\* set a Solver with hsg = False on CUDAUpdates; and hsg = True never goes
\* with CPUUpdates or CUDAUpdates.
C37_SolverSelection ==
    /\ SolverReturned
          => /\ cfg.subgrid
                   => /\ hsg /\ BuiltOn = "create_subgrid_updates"
                      /\ DispersiveConfigured <=> ~cfg.cuda
             /\ (~cfg.subgrid /\ cfg.cpu)
                   => ~hsg /\ BuiltOn = "CPUUpdates" /\ DispersiveConfigured
             /\ (~cfg.subgrid /\ ~cfg.cpu)
                   => cfg.cuda /\ ~hsg /\ BuiltOn = "CUDAUpdates" /\ ~DispersiveConfigured
    /\ hsg => (SolverReturned /\ BuiltOn = "create_subgrid_updates")

C37_Witness ==
    /\ cfg = [subgrid |-> TRUE, cpu |-> TRUE, cuda |-> TRUE]
    /\ pc = "time_start"
    /\ SolverReturned
    /\ hsg
    /\ BuiltOn = "create_subgrid_updates"
    /\ ~DispersiveConfigured
    /\ Len(updaters) = 2

\* =============================================================== SpecRoughness
\* AddSurfaceRoughness.create(grid, uip) on a grid of nx = ny = nz cells that
\* holds two fractal boxes.  A fractal surface is kept with the attributes
\* create gives it; the heights generate_fractal_surface fills in are not kept.
\* Every call is the call of a command object of its own, so the keyword
\* arguments are inputs of the call: create reads p1 and p2 before the
\* optional rotation rewrites them in self.kwargs (70-71, 85-86), so the
\* rotation has no part in what this call does to the fractal box.
GridN == MaxCoord + 1

Params == {"p1", "p2", "frac_dim", "weighting", "limits", "fractal_box_id"}

\* the keyword arguments given: all of them, or all but one
KwargSets == {Params} \cup {Params \ {k} : k \in Params}

BoxIDs == {"A", "B", "C"}

\* coordinates in cells, as uip.check_box_points hands them back
Coords == {0, MaxCoord}

Points == Coords \X Coords \X Coords

FracDims == {-1, 1}

Weightings == {<<1, 1>>, <<-1, 1>>, <<1, -1>>}

\* (round_value(limits[0] / d), round_value(limits[1] / d)): the limits in
\* cells, the same along every axis
Ranges == {<<-1, MaxCoord>>, <<0, MaxCoord>>, <<0, GridN + 1>>}

\* no seed given (None) or the seed 1
Seeds == {<<>>, <<1>>}

FractalBox(id, lo, hi) ==
    [ID |-> id, xs |-> lo, xf |-> hi, ys |-> lo, yf |-> hi, zs |-> lo, zf |-> hi,
     fractalsurfaces |-> <<>>]

InitRoughness ==
    /\ \E id \in {"A", "B"} :
          fractalvolumes = <<FractalBox("A", 0, MaxCoord), FractalBox(id, MaxCoord, GridN)>>
    /\ created = NoCreate
    /\ SolverIdle
    /\ InjIdle
    /\ GeomIdle
    /\ BackendsIdle

\* logger.exception(...) followed by raise: the call ends here
Raised(exc, msg) == [result |-> exc, logged |-> msg, surfaceID |-> "none"]

\* requestedsurface = id
Requested(id) == [result |-> "ok", logged |-> "none", surfaceID |-> id]

\* the inner part of each of the three branches of "Check for valid
\* orientations": s = f is the coordinate of the flat direction, vs and vf the
\* extent of the box along it, n the size of the grid along it.  When neither
\* "if" assigns requestedsurface, line 179 reads an unbound local.
Side(s, f, vs, vf, n, fractalrange, minus, plus) ==
    IF s # vs /\ s # vf
    THEN Raised("ValueError", "external surfaces")
    ELSE IF s = vs
    THEN IF fractalrange[1] < 0 \/ fractalrange[2] > vf
         THEN Raised("ValueError", "exceed upper")
         ELSE Requested(minus)
    ELSE IF f = vf
    THEN IF fractalrange[1] < vs \/ fractalrange[2] > n
         THEN Raised("ValueError", "exceed lower")
         ELSE Requested(plus)
    ELSE Raised("UnboundLocalError", "none")

\* "Check for valid orientations" (110-176)
Orientation(p1, p2, volume, fractalrange) ==
    LET xs == p1[1]
        ys == p1[2]
        zs == p1[3]
        xf == p2[1]
        yf == p2[2]
        zf == p2[3]
    IN  IF xs = xf
        THEN IF ys = yf \/ zs = zf
             THEN Raised("ValueError", "dimensions")
             ELSE Side(xs, xf, volume.xs, volume.xf, GridN, fractalrange, "xminus", "xplus")
        ELSE IF ys = yf
        THEN IF xs = xf \/ zs = zf
             THEN Raised("ValueError", "dimensions")
             ELSE Side(ys, yf, volume.ys, volume.yf, GridN, fractalrange, "yminus", "yplus")
        ELSE IF zs = zf
        THEN IF xs = xf \/ ys = yf
             THEN Raised("ValueError", "dimensions")
             ELSE Side(zs, zf, volume.zs, volume.zf, GridN, fractalrange, "zminus", "zplus")
        ELSE Raised("ValueError", "dimensions")

\* mutant of AlreadyUsed: the surface ID looked up among the box IDs
AlreadyUsed_OperatingOnID(volume, surfaceID) ==
    surfaceID \in {volume.fractalsurfaces[i].operatingonID : i \in 1..Len(volume.fractalsurfaces)}

\* surface.surfaceID in existingsurfaceIDs (189-190)
AlreadyUsed(volume, surfaceID) ==
    surfaceID \in {volume.fractalsurfaces[i].surfaceID : i \in 1..Len(volume.fractalsurfaces)}

\* the call ends with the exception exc after logging msg
Raise(exc, msg) ==
    /\ fractalvolumes' = fractalvolumes
    /\ created' = [n |-> created.n + 1, result |-> exc, logged |-> msg,
                   before |-> fractalvolumes]

\* volume.fractalsurfaces.append(surface), volume being grid.fractalvolumes[v]
AppendSurface(v, surface) ==
    /\ fractalvolumes' = [fractalvolumes EXCEPT
                            ![v].fractalsurfaces = Append(fractalvolumes[v].fractalsurfaces, surface)]
    /\ created' = [n |-> created.n + 1, result |-> "ok", logged |-> "none",
                   before |-> fractalvolumes]

\* AddSurfaceRoughness.create(grid, uip).  Every input is drawn where create
\* first depends on it.
Create ==
    /\ created.n < MaxCalls
    /\ \E given \in KwargSets :
          IF given # Params
          THEN Raise("KeyError", "incorrect parameters")
          ELSE \E fractal_box_id \in BoxIDs :
             LET volumes == {i \in 1..Len(fractalvolumes) : fractalvolumes[i].ID = fractal_box_id}
             IN  IF volumes = {}
                 THEN Raise("ValueError", "cannot find FractalBox")
                 ELSE LET v == CHOOSE i \in volumes : \A j \in volumes : i <= j
                          volume == fractalvolumes[v]
                      IN  \E checked \in BOOLEAN :
                             IF ~checked
                             THEN Raise("ValueError", "check_box_points")
                             ELSE \E p1 \in Points, p2 \in Points, frac_dim \in FracDims :
                                IF frac_dim < 0
                                THEN Raise("ValueError", "fractal dimension")
                                ELSE \E weighting \in Weightings :
                                   IF weighting[1] < 0
                                   THEN Raise("ValueError", "weighting first direction")
                                   ELSE IF weighting[2] < 0
                                   THEN Raise("ValueError", "weighting second direction")
                                   ELSE \E fractalrange \in Ranges :
                                      LET o == Orientation(p1, p2, volume, fractalrange)
                                      IN  IF o.result # "ok"
                                          THEN Raise(o.result, o.logged)
                                          ELSE \E seed \in Seeds :
                                             LET surface == [surfaceID |-> o.surfaceID,
                                                             fractalrange |-> fractalrange,
                                                             operatingonID |-> volume.ID,
                                                             seed |-> seed,
                                                             weighting |-> weighting]
                                             IN  IF AlreadyUsed(volume, surface.surfaceID)
                                                 THEN Raise("ValueError", "already been used")
                                                 ELSE AppendSurface(v, surface)
    /\ UNCHANGED <<solverVars, injVars, geomVars, backendVars>>

NextRoughness == Create

SpecRoughness == InitRoughness /\ [][NextRoughness]_vars

\* ------------------------------------------------------------------------ C38
SurfaceIDs(volume) ==
    {volume.fractalsurfaces[i].surfaceID : i \in 1..Len(volume.fractalsurfaces)}

\* the fractal boxes whose list of surfaces the call made last has changed
Touched ==
    {k \in 1..Len(fractalvolumes) : fractalvolumes[k] # created.before[k]}

\* C38: AddSurfaceRoughness.create adds at most one fractal surface per
\* surface ID to a fractal box: after any sequence of create calls the
\* surfaceIDs in every volume.fractalsurfaces are pairwise distinct (and are
\* among the six face names), a call that fails raises an error after logging
\* the cause and leaves every volume.fractalsurfaces as it was, and a call
\* that succeeds appends to one box one surface whose ID the box did not hold.
C38_OneSurfacePerID ==
    /\ \A k \in 1..Len(fractalvolumes) :
          LET l == fractalvolumes[k].fractalsurfaces
          IN  /\ \A i, j \in 1..Len(l) : l[i].surfaceID = l[j].surfaceID => i = j
              /\ SurfaceIDs(fractalvolumes[k])
                    \subseteq {"xminus", "xplus", "yminus", "yplus", "zminus", "zplus"}
    /\ created.result \in {"none", "ok", "KeyError", "ValueError"}
    /\ created.result \in {"KeyError", "ValueError"}
          => created.logged # "none" /\ fractalvolumes = created.before
    /\ created.result = "ok"
          => /\ Len(created.before) = Len(fractalvolumes)
             /\ \E k \in 1..Len(fractalvolumes) :
                   /\ Touched = {k}
                   /\ \E surface \in {fractalvolumes[k].fractalsurfaces[Len(fractalvolumes[k].fractalsurfaces)]} :
                         /\ fractalvolumes[k].fractalsurfaces
                               = Append(created.before[k].fractalsurfaces, surface)
                         /\ surface.surfaceID \notin SurfaceIDs(created.before[k])

\* a second call for a face that already has a surface: it raised ValueError
\* and the box holds what it held
C38_Witness ==
    /\ created.result = "ValueError"
    /\ created.logged = "already been used"
    /\ fractalvolumes = created.before
    /\ \E k \in 1..Len(fractalvolumes) : Len(fractalvolumes[k].fractalsurfaces) >= 1

====
